---------------------------- MODULE Spec2Model ----------------------------
(***************************************************************************)
(* Model of romana-core: the policy hasher (pkg/util/policy/hasher) and    *)
(* the firewall bulk-delete guard (agent/firewall).                        *)
(*                                                                         *)
(* Go strings are modelled as sequences of byte values, so that the        *)
(* formatting done by fmt.Sprintf (%s, %d, %t) and the bytewise string     *)
(* comparison used by the Less methods are computed, not assumed.          *)
(* A Go pointer to uint64 is a sequence of length 0 (nil) or 1 (value).    *)
(* A Go slice held by the caller is a sequence; sort.Sort on a slice that  *)
(* shares its backing array with the caller's slice changes the caller's   *)
(* sequence as well.                                                       *)
(***************************************************************************)
EXTENDS Integers, Sequences, FiniteSets, TLC

\* ------------------------------------------------------------------------
\* Bounds of the model
\* ------------------------------------------------------------------------

\* longest AppliedTo / Peers list
MaxEndpoints == 2

\* longest Rules list of one ingress entry
MaxRules == 2

\* longest Ingress list of a policy
MaxIngress == 2

\* longest Ports list of a rule
MaxPorts == 3

\* longest PortRanges list of a rule
MaxRanges == 2

\* most rules on the host when the firewall object is created
MaxHostRules == 2

\* most commands the executor records in one run
MaxCommands == 2

\* ------------------------------------------------------------------------
\* Strings as byte sequences
\* ------------------------------------------------------------------------

BSeq(S, n) == UNION {[1..k -> S] : k \in 0..n}

Range(s) == {s[i] : i \in 1..Len(s)}

\* bytewise lexicographic order of Go strings (operator < on string)
RECURSIVE StrLess(_, _)
StrLess(s, t) ==
    IF t = <<>> THEN FALSE
    ELSE IF s = <<>> THEN TRUE
    ELSE IF s[1] # t[1] THEN s[1] < t[1]
    ELSE StrLess(Tail(s), Tail(t))

HasPrefix(s, p) == Len(p) <= Len(s) /\ SubSeq(s, 1, Len(p)) = p

\* fmt.Sprintf("%d", n) for an unsigned n: decimal digits, no padding
RECURSIVE FmtD(_)
FmtD(n) ==
    IF n < 10 THEN <<48 + n>>
    ELSE FmtD(n \div 10) \o <<48 + (n % 10)>>

\* fmt.Sprintf("%t", b)
FmtT(b) == IF b THEN <<116, 114, 117, 101>> ELSE <<102, 97, 108, 115, 101>>

\* the string literals used by the inputs
StrEmpty == <<>>
StrA == <<97>>
StrTCP == <<84, 67, 80>>
StrUDP == <<85, 68, 80>>

\* ------------------------------------------------------------------------
\* sort.Sort
\* ------------------------------------------------------------------------

(***************************************************************************)
(* sort.Sort(data) for the slice lengths of this model.  For fewer than 7  *)
(* elements every Go release runs plain insertion sort:                    *)
(*    for i := a+1; i < b; i++ {                                           *)
(*        for j := i; j > a && data.Less(j, j-1); j-- { data.Swap(j,j-1) } *)
(*    }                                                                    *)
(* InsertLast is the inner loop: the new element moves left past every     *)
(* element of the trailing run it is Less than.  SliceLess is the Less     *)
(* method of the sort.Interface implementation named by kind.              *)
(***************************************************************************)
RECURSIVE SliceLess(_, _, _)

InsertLast(kind, t, x) ==
    LET stops == {m \in 1..Len(t) : ~SliceLess(kind, x, t[m])}
        stop == IF stops = {} THEN 0
                ELSE CHOOSE m \in stops : \A k \in stops : k <= m
    IN SubSeq(t, 1, stop) \o <<x>> \o SubSeq(t, stop + 1, Len(t))

SortSort(kind, s) ==
    LET pass[i \in 0..Len(s)] ==
            IF i = 0 THEN <<>> ELSE InsertLast(kind, pass[i - 1], s[i])
    IN pass[Len(s)]

\* ------------------------------------------------------------------------
\* Endpoints
\* ------------------------------------------------------------------------

\* *uint64: nil pointer and pointer to v
NilPtr == <<>>
Ptr(v) == <<v>>

Endpoint(peer, cidr, tid, sid) ==
    [Peer |-> peer, Cidr |-> cidr, Dest |-> StrEmpty,
     TenantID |-> 0, TenantName |-> StrEmpty, TenantExternalID |-> StrEmpty,
     TenantNetworkID |-> tid,
     SegmentID |-> 0, SegmentName |-> StrEmpty, SegmentExternalID |-> StrEmpty,
     SegmentNetworkID |-> sid]

EndpointToString_NilSkipped(e) ==
    LET tid == IF e.TenantNetworkID # NilPtr THEN FmtD(e.TenantNetworkID[1]) ELSE <<>>
        sid == IF e.SegmentNetworkID # NilPtr THEN FmtD(e.SegmentNetworkID[1]) ELSE <<>>
    IN e.Peer \o e.Cidr \o e.Dest \o FmtD(e.TenantID) \o e.TenantName
         \o e.TenantExternalID \o tid \o FmtD(e.SegmentID) \o e.SegmentName
         \o e.SegmentExternalID \o sid

EndpointToString(e) ==
    LET tid == IF e.TenantNetworkID # NilPtr THEN e.TenantNetworkID[1] ELSE 0
        sid == IF e.SegmentNetworkID # NilPtr THEN e.SegmentNetworkID[1] ELSE 0
    IN e.Peer \o e.Cidr \o e.Dest \o FmtD(e.TenantID) \o e.TenantName
         \o e.TenantExternalID \o FmtD(tid) \o FmtD(e.SegmentID) \o e.SegmentName
         \o e.SegmentExternalID \o FmtD(sid)

\* EndpointList.Less on two EndpointSortGroup items
EndpointListLess(a, b) == StrLess(a.key, b.key)

NewEndpointList(endpoints) ==
    [i \in 1..Len(endpoints) |->
        [endpoint |-> endpoints[i], key |-> EndpointToString(endpoints[i])]]

EndpointListSort(p) == SortSort("EndpointList", p)

EndpointListList(p) == [i \in 1..Len(p) |-> p[i].endpoint]

\* ------------------------------------------------------------------------
\* Rules
\* ------------------------------------------------------------------------

Rule(proto, ports, ranges, stateful) ==
    [Protocol |-> proto, Ports |-> ports, PortRanges |-> ranges,
     IcmpType |-> 0, IcmpCode |-> 0, IsStateful |-> stateful]

UintSliceLess_Descending(a, b) == a > b

UintSliceLess(a, b) == a < b

(***************************************************************************)
(* PortRangeSlice.Less: p[i][0]-p[i][1] < p[j][0]-p[j][1] on unsigned      *)
(* integers (a port range is a pair of uint, like the ports).  An unsigned *)
(* difference low - high wraps to 2^w + (low - high) when low < high, so   *)
(* the compared quantity is the pair (wrapped?, low - high) in             *)
(* lexicographic order, whatever the word size w.                          *)
(***************************************************************************)
UintSub(x, y) == [wrapped |-> IF x < y THEN 1 ELSE 0, diff |-> x - y]

UintLess(u, v) ==
    \/ u.wrapped < v.wrapped
    \/ u.wrapped = v.wrapped /\ u.diff < v.diff

PortRangeSliceLess_OrEqual(a, b) == ~UintLess(UintSub(b[1], b[2]), UintSub(a[1], a[2]))

PortRangeSliceLess(a, b) == UintLess(UintSub(a[1], a[2]), UintSub(b[1], b[2]))

\* the value RuleToCanonical returns
RuleToCanonical(unsorted) ==
    [unsorted EXCEPT !.Ports = SortSort("UintSlice", unsorted.Ports),
                     !.PortRanges = SortSort("PortRangeSlice", unsorted.PortRanges)]

(***************************************************************************)
(* What RuleToCanonical leaves in the caller's rule.  "sorted := unsorted" *)
(* copies the struct but not the arrays behind Ports and PortRanges, and   *)
(* sort.Sort swaps elements in place: the caller's two slices end up in    *)
(* sorted order.  The scalar fields of the caller's rule are not written.  *)
(***************************************************************************)
RuleAfterCall(unsorted) ==
    [unsorted EXCEPT !.Ports = SortSort("UintSlice", unsorted.Ports),
                     !.PortRanges = SortSort("PortRangeSlice", unsorted.PortRanges)]

RECURSIVE ConcatAll(_)
ConcatAll(ss) == IF ss = <<>> THEN <<>> ELSE Head(ss) \o ConcatAll(Tail(ss))

RuleToString_CallerOrder(rule) ==
    rule.Protocol
      \o ConcatAll([i \in 1..Len(rule.Ports) |-> FmtD(rule.Ports[i])])
      \o ConcatAll([i \in 1..Len(rule.PortRanges) |->
                      FmtD(rule.PortRanges[i][1]) \o FmtD(rule.PortRanges[i][2])])
      \o FmtD(rule.IcmpType) \o FmtD(rule.IcmpCode) \o FmtT(rule.IsStateful)

RuleToString(rule) ==
    LET newRule == RuleToCanonical(rule)
    IN rule.Protocol
         \o ConcatAll([i \in 1..Len(newRule.Ports) |-> FmtD(newRule.Ports[i])])
         \o ConcatAll([i \in 1..Len(newRule.PortRanges) |->
                         FmtD(newRule.PortRanges[i][1]) \o FmtD(newRule.PortRanges[i][2])])
         \o FmtD(newRule.IcmpType) \o FmtD(newRule.IcmpCode) \o FmtT(newRule.IsStateful)

(***************************************************************************)
(* RuleSlice.Less: RuleToString(p[i]) < RuleToString(p[j]).  The string is *)
(* a function of the rule alone, so each element of the slice being sorted *)
(* carries it: a and b are [rule, str] with str = RuleToString(rule).      *)
(***************************************************************************)
RuleSliceLess(a, b) == StrLess(a.str, b.str)

\* data.Less(i, j) as sort.Sort calls it on each of the four slice types
SliceLess(kind, a, b) ==
    CASE kind = "EndpointList" -> EndpointListLess(a, b)
      [] kind = "UintSlice" -> UintSliceLess(a, b)
      [] kind = "PortRangeSlice" -> PortRangeSliceLess(a, b)
      [] kind = "RuleSlice" -> RuleSliceLess(a, b)

RulesToCanonical(unsorted) ==
    LET sorted == [i \in 1..Len(unsorted) |->
                     [rule |-> RuleToCanonical(unsorted[i]),
                      str |-> RuleToString(RuleToCanonical(unsorted[i]))]]
        ret == SortSort("RuleSlice", sorted)
    IN [i \in 1..Len(ret) |-> ret[i].rule]

\* ------------------------------------------------------------------------
\* Ingress entries and policies
\* ------------------------------------------------------------------------

IngressToCanonical(unsorted) ==
    [Peers |-> EndpointListList(EndpointListSort(NewEndpointList(unsorted.Peers))),
     Rules |-> [j \in 1..Len(unsorted.Rules) |-> RuleToCanonical(unsorted.Rules[j])]]

\* the caller's ingress entry after IngressToCanonical or RulesToCanonical
IngressAfterCall(unsorted) ==
    [unsorted EXCEPT !.Rules = [j \in 1..Len(unsorted.Rules) |-> RuleAfterCall(unsorted.Rules[j])]]

PolicyToCanonical(unsorted) ==
    [Direction |-> unsorted.Direction,
     Description |-> unsorted.Description,
     Name |-> unsorted.Name,
     ID |-> unsorted.ID,
     ExternalID |-> unsorted.ExternalID,
     AppliedTo |-> EndpointListList(EndpointListSort(NewEndpointList(unsorted.AppliedTo))),
     Ingress |-> [i \in 1..Len(unsorted.Ingress) |-> IngressToCanonical(unsorted.Ingress[i])]]

\* the caller's policy after PolicyToCanonical
PolicyAfterCall(unsorted) ==
    [unsorted EXCEPT !.Ingress = [i \in 1..Len(unsorted.Ingress) |-> IngressAfterCall(unsorted.Ingress[i])]]

\* ------------------------------------------------------------------------
\* Inputs of the hasher
\* ------------------------------------------------------------------------

Policy(direction, appliedTo, ingress) ==
    [Direction |-> direction, Description |-> "description", Name |-> "name",
     ID |-> 1, ExternalID |-> "external",
     AppliedTo |-> appliedTo, Ingress |-> ingress]

Ingress(peers, rules) == [Peers |-> peers, Rules |-> rules]

\* endpoints that differ in the string fields and in the optional network IDs
EndpointSpace ==
    {Endpoint(x[1], x[2], x[3], x[4]) :
        x \in {StrEmpty, StrA} \X {StrEmpty, StrA}
              \X {NilPtr, Ptr(0), Ptr(1)} \X {NilPtr, Ptr(0)}}

EndpointCidr == Endpoint(StrEmpty, StrA, NilPtr, NilPtr)
EndpointPeer == Endpoint(StrA, StrEmpty, Ptr(1), NilPtr)
EndpointPool == {EndpointCidr, EndpointPeer}

PortPool == {80, 99, 8080}
RangePool == {<<1, 3>>, <<5, 5>>, <<7, 9>>}

RuleSpace ==
    {Rule(x[1], x[2], x[3], x[4]) :
        x \in {StrTCP, StrUDP} \X BSeq(PortPool, MaxPorts)
              \X BSeq(RangePool, MaxRanges) \X BOOLEAN}

\* the two rules of TestMakePolicyRules and a rule with port ranges
RuleTCP == Rule(StrTCP, <<99, 80, 8080>>, <<>>, FALSE)
RuleUDP == Rule(StrUDP, <<53, 1194>>, <<>>, FALSE)
RuleRanges == Rule(StrTCP, <<>>, <<<<5, 5>>, <<1, 3>>>>, TRUE)
RulePool == {RuleTCP, RuleUDP, RuleRanges}

IngressPool ==
    {Ingress(<<EndpointPeer, EndpointCidr>>, <<RuleUDP, RuleTCP>>),
     Ingress(<<EndpointCidr>>, <<RuleRanges>>),
     Ingress(<<>>, <<>>)}

\* policies with a varied AppliedTo list
EndpointInputs ==
    {Policy("ingress", a, <<>>) : a \in BSeq(EndpointSpace, MaxEndpoints)}

\* policies with one varied rule
RuleInputs ==
    {Policy("ingress", <<>>, <<Ingress(<<>>, <<r>>)>>) : r \in RuleSpace}

\* policies with one varied ingress entry
IngressInputs ==
    {Policy("egress", <<>>, <<Ingress(x[1], x[2])>>) :
        x \in BSeq(EndpointPool, MaxEndpoints) \X BSeq(RulePool, MaxRules)}

\* policies with several ingress entries
PolicyInputs ==
    {Policy(x[1], x[2], x[3]) :
        x \in {"ingress", "egress"} \X BSeq(EndpointPool, MaxEndpoints)
              \X BSeq(IngressPool, MaxIngress)}

HasherInputs == EndpointInputs \cup RuleInputs \cup IngressInputs \cup PolicyInputs

\* ------------------------------------------------------------------------
\* State
\* ------------------------------------------------------------------------

VARIABLES
    callerPolicy,   \* the caller's policy object, as it is now
    arg,        \* the argument of the last call, as it was when the call was made
    ret,        \* the value the last call returned
    op,         \* the function called last ("init": none yet)
    at          \* where in the caller's policy the argument lives: <<>>, <<i>> or <<i, j>>

VARIABLES
    fwOs,       \* IPtables.os: "nil" in a zero-value IPtables, "executor" otherwise
    hostRules,  \* the rule lines the host holds, in order
    Commands,   \* the commands the executor has recorded
    fwOp,       \* the firewall method called last ("init": none yet)
    fwArg,      \* its argument
    fwErr       \* what it returned: "nil", an error, or "panic"

VARIABLES
    hostChains, \* the chains the host holds besides the built-in ones
    fwPass,     \* the number of the reconciliation pass that is running
    fwStep,     \* how many steps of that pass are done
    fwRet,      \* what the last call returned besides its error
    passPc,     \* concurrent passes: where each pass is in EnsureRule
    serialized  \* concurrent passes: whether the caller runs them one at a time

VARIABLES
    enPolicies, \* the policy list given to makePolicies
    enLocal,    \* the endpoints for which the membership predicate holds
    iptablesGold,   \* the iptables model the first makePolicies run filled
    iptablesTest,   \* the iptables model the second makePolicies run filled
    enSets,     \* what makePolicySets returned, one set per policy
    enOp        \* the enforcer function called last ("init": none yet)

VARIABLES
    npEvents,   \* the batch handleNetworkPolicyEvents was called with
    npFailing,  \* the kubernetes policies the translator cannot translate
    npApplied,  \* the applyNetworkPolicy calls made, in order
    npErr       \* the errors Kube2RomanaBulk returned for creations and deletions

VARIABLES
    terminators,    \* conductor's map from namespace UID to termination channel
    channels,   \* every channel made so far: how many times it was closed
    lastEventPerNamespace,  \* the keys of the listener's resource version counters
    nsEvents    \* the events manageResources was called with and how each call ended

VARIABLES
    syKubePolicies, \* the kubernetes policies syncNetworkPolicies was called with
    syFetched,  \* what getAllPoliciesFunc answers: romana policies, or an error
    syRet       \* what syncNetworkPolicies returned (<<>>: not called yet)

VARIABLES
    ipEndpoints,    \* the rows of the endpoints table, in the order of their creation
    ipRet,      \* the last ipamStore call and what it returned
    ipTokenIps, \* the request tokens of the successful addEndpoint calls, each with the Ip returned
    ipTx        \* overlapping addEndpoint calls: what each transaction has read so far

VARIABLES
    heEvent,    \* the event handleNamespaceEvent was called with
    heServices, \* which of the services the handler asks answer with an error
    heCalls,    \* what the handler did, in order
    heRet       \* how the call ended ("init": not called yet)

hasherVars == <<callerPolicy, arg, ret, op, at>>

firewallVars == <<fwOs, hostRules, Commands, fwOp, fwArg, fwErr>>

lifecycleVars == <<hostChains, fwPass, fwStep, fwRet, passPc, serialized>>

enforcerVars == <<enPolicies, enLocal, iptablesGold, iptablesTest, enSets, enOp>>

policyEventVars == <<npEvents, npFailing, npApplied, npErr>>

conductorVars == <<terminators, channels, lastEventPerNamespace, nsEvents>>

syncVars == <<syKubePolicies, syFetched, syRet>>

ipamVars == <<ipEndpoints, ipRet, ipTokenIps, ipTx>>

namespaceVars == <<heEvent, heServices, heCalls, heRet>>

vars == <<hasherVars, firewallVars, lifecycleVars, enforcerVars, policyEventVars,
          conductorVars, syncVars, ipamVars, namespaceVars>>

\* the parts of the state that belong to the other packages
notHasher ==
    <<firewallVars, lifecycleVars, enforcerVars, policyEventVars, conductorVars,
      syncVars, ipamVars, namespaceVars>>
notFirewall ==
    <<hasherVars, lifecycleVars, enforcerVars, policyEventVars, conductorVars,
      syncVars, ipamVars, namespaceVars>>
notLifecycle ==
    <<hasherVars, enforcerVars, policyEventVars, conductorVars,
      syncVars, ipamVars, namespaceVars>>
notEnforcer ==
    <<hasherVars, firewallVars, lifecycleVars, policyEventVars, conductorVars,
      syncVars, ipamVars, namespaceVars>>
notPolicyEvents ==
    <<hasherVars, firewallVars, lifecycleVars, enforcerVars, conductorVars,
      syncVars, ipamVars, namespaceVars>>
notConductor ==
    <<hasherVars, firewallVars, lifecycleVars, enforcerVars, policyEventVars,
      syncVars, ipamVars, namespaceVars>>
notSync ==
    <<hasherVars, firewallVars, lifecycleVars, enforcerVars, policyEventVars,
      conductorVars, ipamVars, namespaceVars>>
notIpam ==
    <<hasherVars, firewallVars, lifecycleVars, enforcerVars, policyEventVars,
      conductorVars, syncVars, namespaceVars>>
notNamespace ==
    <<hasherVars, firewallVars, lifecycleVars, enforcerVars, policyEventVars,
      conductorVars, syncVars, ipamVars>>

\* a package that is not exercised in a run stays as constructed
HasherUnused ==
    /\ callerPolicy = <<>>
    /\ arg = <<>>
    /\ ret = <<>>
    /\ op = "init"
    /\ at = <<>>

FirewallUnused ==
    /\ fwOs = "nil"
    /\ hostRules = <<>>
    /\ Commands = <<>>
    /\ fwOp = "init"
    /\ fwArg = <<>>
    /\ fwErr = "nil"

LifecycleUnused ==
    /\ hostChains = {}
    /\ fwPass = 1
    /\ fwStep = 0
    /\ fwRet = <<>>
    /\ passPc = <<>>
    /\ serialized = TRUE

EnforcerUnused ==
    /\ enPolicies = <<>>
    /\ enLocal = {}
    /\ iptablesGold = <<>>
    /\ iptablesTest = <<>>
    /\ enSets = <<>>
    /\ enOp = "init"

PolicyEventsUnused ==
    /\ npEvents = <<>>
    /\ npFailing = {}
    /\ npApplied = <<>>
    /\ npErr = <<>>

ConductorUnused ==
    /\ terminators = {}
    /\ channels = <<>>
    /\ lastEventPerNamespace = {}
    /\ nsEvents = <<>>

SyncUnused ==
    /\ syKubePolicies = <<>>
    /\ syFetched = <<>>
    /\ syRet = <<>>

IpamUnused ==
    /\ ipEndpoints = <<>>
    /\ ipRet = <<>>
    /\ ipTokenIps = {}
    /\ ipTx = <<>>

NamespaceUnused ==
    /\ heEvent = <<>>
    /\ heServices = {}
    /\ heCalls = <<>>
    /\ heRet = "init"

\* ------------------------------------------------------------------------
\* The hasher: one call by the caller, then possibly a second one on the result
\* ------------------------------------------------------------------------

Init ==
    /\ callerPolicy \in HasherInputs
    /\ arg = <<>>
    /\ ret = <<>>
    /\ op = "init"
    /\ at = <<>>
    /\ FirewallUnused
    /\ LifecycleUnused
    /\ EnforcerUnused
    /\ PolicyEventsUnused
    /\ ConductorUnused
    /\ SyncUnused
    /\ IpamUnused
    /\ NamespaceUnused

CallPolicyToCanonical ==
    /\ op = "init"
    /\ arg' = callerPolicy
    /\ ret' = PolicyToCanonical(callerPolicy)
    /\ callerPolicy' = PolicyAfterCall(callerPolicy)
    /\ op' = "PolicyToCanonical"
    /\ at' = <<>>
    /\ UNCHANGED notHasher

\* the caller passes the canonical policy it got back in again
CallPolicyToCanonicalAgain ==
    /\ op = "PolicyToCanonical"
    /\ arg' = ret
    /\ ret' = PolicyToCanonical(ret)
    /\ op' = "PolicyToCanonicalAgain"
    /\ UNCHANGED <<callerPolicy, at>>
    /\ UNCHANGED notHasher

CallIngressToCanonical ==
    /\ op = "init"
    /\ \E i \in 1..Len(callerPolicy.Ingress) :
        /\ arg' = callerPolicy.Ingress[i]
        /\ ret' = IngressToCanonical(callerPolicy.Ingress[i])
        /\ callerPolicy' = [callerPolicy EXCEPT !.Ingress[i] = IngressAfterCall(@)]
        /\ at' = <<i>>
    /\ op' = "IngressToCanonical"
    /\ UNCHANGED notHasher

CallRulesToCanonical ==
    /\ op = "init"
    /\ \E i \in 1..Len(callerPolicy.Ingress) :
        /\ arg' = callerPolicy.Ingress[i].Rules
        /\ ret' = RulesToCanonical(callerPolicy.Ingress[i].Rules)
        /\ callerPolicy' = [callerPolicy EXCEPT !.Ingress[i] = IngressAfterCall(@)]
        /\ at' = <<i>>
    /\ op' = "RulesToCanonical"
    /\ UNCHANGED notHasher

CallRuleToCanonical ==
    /\ op = "init"
    /\ \E i \in 1..Len(callerPolicy.Ingress) :
        \E j \in 1..Len(callerPolicy.Ingress[i].Rules) :
            /\ arg' = callerPolicy.Ingress[i].Rules[j]
            /\ ret' = RuleToCanonical(callerPolicy.Ingress[i].Rules[j])
            /\ callerPolicy' = [callerPolicy EXCEPT !.Ingress[i].Rules[j] = RuleAfterCall(@)]
            /\ at' = <<i, j>>
    /\ op' = "RuleToCanonical"
    /\ UNCHANGED notHasher

CallRuleToString ==
    /\ op = "init"
    /\ \E i \in 1..Len(callerPolicy.Ingress) :
        \E j \in 1..Len(callerPolicy.Ingress[i].Rules) :
            /\ arg' = callerPolicy.Ingress[i].Rules[j]
            /\ ret' = RuleToString(callerPolicy.Ingress[i].Rules[j])
            /\ callerPolicy' = [callerPolicy EXCEPT !.Ingress[i].Rules[j] = RuleAfterCall(@)]
            /\ at' = <<i, j>>
    /\ op' = "RuleToString"
    /\ UNCHANGED notHasher

\* NewEndpointList on AppliedTo (at = <<>>) or on the Peers of an ingress entry
CallNewEndpointList ==
    /\ op = "init"
    /\ \/ /\ arg' = callerPolicy.AppliedTo
          /\ ret' = NewEndpointList(callerPolicy.AppliedTo)
          /\ at' = <<>>
       \/ \E i \in 1..Len(callerPolicy.Ingress) :
          /\ arg' = callerPolicy.Ingress[i].Peers
          /\ ret' = NewEndpointList(callerPolicy.Ingress[i].Peers)
          /\ at' = <<i>>
    /\ op' = "NewEndpointList"
    /\ UNCHANGED callerPolicy
    /\ UNCHANGED notHasher

Next ==
    \/ CallPolicyToCanonical
    \/ CallPolicyToCanonicalAgain
    \/ CallIngressToCanonical
    \/ CallRulesToCanonical
    \/ CallRuleToCanonical
    \/ CallRuleToString
    \/ CallNewEndpointList

Spec == Init /\ [][Next]_vars

\* ------------------------------------------------------------------------
\* Properties of the hasher
\* ------------------------------------------------------------------------

\* the part of the caller's policy that was passed to the last call, as it is now
ArgNow ==
    IF at = <<>> THEN callerPolicy
    ELSE IF Len(at) = 1 THEN callerPolicy.Ingress[at[1]]
    ELSE callerPolicy.Ingress[at[1]].Rules[at[2]]

Count(s, x) == Cardinality({i \in 1..Len(s) : s[i] = x})

IsPermutation(s, t) ==
    /\ Len(s) = Len(t)
    /\ \A x \in Range(s) \cup Range(t) : Count(s, x) = Count(t, x)

PermutationsOf(s) ==
    {[i \in 1..Len(s) |-> s[p[i]]] : p \in Permutations(1..Len(s))}

\* every sequence that takes its i-th element from the i-th set
SeqProduct(sets) ==
    {t \in [1..Len(sets) -> UNION Range(sets)] : \A i \in 1..Len(sets) : t[i] \in sets[i]}

RuleVariants(r) ==
    {[r EXCEPT !.Ports = x[1], !.PortRanges = x[2]] :
        x \in PermutationsOf(r.Ports) \X PermutationsOf(r.PortRanges)}

IngressVariants(g) ==
    {Ingress(x[1], x[2]) :
        x \in PermutationsOf(g.Peers)
              \X UNION {PermutationsOf(rs) :
                          rs \in SeqProduct([j \in 1..Len(g.Rules) |-> RuleVariants(g.Rules[j])])}}

\* the policies that differ from p only by the order inside its collections
PolicyVariants(p) ==
    {[p EXCEPT !.AppliedTo = x[1], !.Ingress = x[2]] :
        x \in PermutationsOf(p.AppliedTo)
              \X SeqProduct([i \in 1..Len(p.Ingress) |-> IngressVariants(p.Ingress[i])])}

KeysNonDecreasing(endpoints) ==
    \A i \in 1..(Len(endpoints) - 1) :
        ~StrLess(EndpointToString(endpoints[i + 1]), EndpointToString(endpoints[i]))

Ascending(ports) == \A i \in 1..(Len(ports) - 1) : ports[i] <= ports[i + 1]

\* an endpoint's field values, an absent network ID counting as 0
FieldValues(e) ==
    [e EXCEPT !.TenantNetworkID = IF @ = NilPtr THEN Ptr(0) ELSE @,
              !.SegmentNetworkID = IF @ = NilPtr THEN Ptr(0) ELSE @]

Width(r) == r[2] - r[1]

\* C1: canonicalizing a canonical policy returns it unchanged, field for field
\* and element for element.
C1_Idempotent == op = "PolicyToCanonicalAgain" => ret = arg

\* C1 witness: the second call was made on the result of a first call that
\* reordered AppliedTo and the Peers of an ingress entry.
C1_Witness ==
    /\ op = "PolicyToCanonicalAgain"
    /\ ret.AppliedTo # callerPolicy.AppliedTo
    /\ \E i \in 1..Len(ret.Ingress) : ret.Ingress[i].Peers # callerPolicy.Ingress[i].Peers

\* C2: every policy that differs from the argument only by the order inside
\* AppliedTo, Peers, Rules, Ports or PortRanges canonicalizes to the same result.
C2_OrderIndependent ==
    op = "PolicyToCanonical" =>
        \A q \in PolicyVariants(arg) : PolicyToCanonical(q) = ret

\* C3: PolicyToCanonical, IngressToCanonical and RuleToCanonical leave the
\* caller's argument as it was when the call was made.
C3_NeverMutatesArgument ==
    op \in {"PolicyToCanonical", "IngressToCanonical", "RuleToCanonical"} => ArgNow = arg

\* C4: in the result of PolicyToCanonical AppliedTo and every Peers list are in
\* non-decreasing key order, every Ports list is ascending, each of them is a
\* permutation of the input list, and the scalar fields are copied.
C4_SortedPermutation ==
    op = "PolicyToCanonical" =>
        /\ KeysNonDecreasing(ret.AppliedTo)
        /\ IsPermutation(ret.AppliedTo, arg.AppliedTo)
        /\ Len(ret.Ingress) = Len(arg.Ingress)
        /\ \A i \in 1..Len(ret.Ingress) :
            /\ KeysNonDecreasing(ret.Ingress[i].Peers)
            /\ IsPermutation(ret.Ingress[i].Peers, arg.Ingress[i].Peers)
            /\ Len(ret.Ingress[i].Rules) = Len(arg.Ingress[i].Rules)
            /\ \A j \in 1..Len(ret.Ingress[i].Rules) :
                /\ Ascending(ret.Ingress[i].Rules[j].Ports)
                /\ IsPermutation(ret.Ingress[i].Rules[j].Ports, arg.Ingress[i].Rules[j].Ports)
        /\ ret.Direction = arg.Direction
        /\ ret.Description = arg.Description
        /\ ret.Name = arg.Name
        /\ ret.ID = arg.ID
        /\ ret.ExternalID = arg.ExternalID

\* C4 witness: PolicyToCanonical returned a policy whose AppliedTo, Peers and
\* Ports all had to be reordered.
C4_Witness ==
    /\ op = "PolicyToCanonical"
    /\ ret.AppliedTo # arg.AppliedTo
    /\ \E i \in 1..Len(ret.Ingress) :
        /\ ret.Ingress[i].Peers # arg.Ingress[i].Peers
        /\ \E j \in 1..Len(ret.Ingress[i].Rules) :
            ret.Ingress[i].Rules[j].Ports # arg.Ingress[i].Rules[j].Ports

\* C5: in the result of PolicyToCanonical the Rules of every ingress entry are
\* in non-decreasing order of RuleToString.
C5_RulesSorted ==
    op = "PolicyToCanonical" =>
        \A i \in 1..Len(ret.Ingress) :
            \A j \in 1..(Len(ret.Ingress[i].Rules) - 1) :
                ~StrLess(RuleToString(ret.Ingress[i].Rules[j + 1]),
                         RuleToString(ret.Ingress[i].Rules[j]))

\* "TCP808099", "TCP80998080" and "TCP8099808000false"
StrTCP808099 == <<84, 67, 80, 56, 48, 56, 48, 57, 57>>
StrTCP80998080 == <<84, 67, 80, 56, 48, 57, 57, 56, 48, 56, 48>>
StrTCP8099808000false == StrTCP80998080 \o <<48, 48, 102, 97, 108, 115, 101>>

\* C6 as stated: Rule{TCP, [99,80,8080]} canonicalizes to Ports [80,99,8080]
\* and its rule string starts with "TCP808099".
C6_ScenarioC_Original ==
    /\ (op = "RuleToCanonical" /\ arg = RuleTCP) => ret.Ports = <<80, 99, 8080>>
    /\ (op = "RuleToString" /\ arg = RuleTCP) => HasPrefix(ret, StrTCP808099)

\* C6 amended: Rule{TCP, [99,80,8080]} canonicalizes to Ports [80,99,8080] and
\* its rule string is "TCP8099808000false", which starts with "TCP80998080".
C6_ScenarioC ==
    /\ (op = "RuleToCanonical" /\ arg = RuleTCP) => ret.Ports = <<80, 99, 8080>>
    /\ (op = "RuleToString" /\ arg = RuleTCP) =>
          /\ ret = StrTCP8099808000false
          /\ HasPrefix(ret, StrTCP80998080)

\* C6 witness: RuleToString was called on Rule{TCP, [99,80,8080]}.
C6_Witness == op = "RuleToString" /\ arg = RuleTCP

\* C7: after RuleToCanonical no port range precedes a strictly wider one (so a
\* zero-width range follows every range with low < high), and Less reports
\* two ranges of equal width as equal in both directions.
C7_RangesByWidth ==
    op = "RuleToCanonical" =>
        /\ \A i \in 1..Len(ret.PortRanges) : \A j \in (i + 1)..Len(ret.PortRanges) :
              Width(ret.PortRanges[i]) >= Width(ret.PortRanges[j])
        /\ \A i, j \in 1..Len(ret.PortRanges) :
              Width(ret.PortRanges[i]) = Width(ret.PortRanges[j]) =>
                  /\ ~PortRangeSliceLess(ret.PortRanges[i], ret.PortRanges[j])
                  /\ ~PortRangeSliceLess(ret.PortRanges[j], ret.PortRanges[i])

\* C8: two endpoints with the same key have the same field values (an absent
\* network ID counting as 0).
C8_KeyUnambiguous ==
    op = "NewEndpointList" =>
        \A i, j \in 1..Len(ret) :
            ret[i].key = ret[j].key =>
                FieldValues(ret[i].endpoint) = FieldValues(ret[j].endpoint)

\* C9: an endpoint with a nil network ID and an otherwise equal endpoint whose
\* network ID points to 0 get the same key.
C9_NilIsZero ==
    op = "NewEndpointList" =>
        \A i, j \in 1..Len(ret) :
            FieldValues(ret[i].endpoint) = FieldValues(ret[j].endpoint) =>
                ret[i].key = ret[j].key

\* C9 witness: the list holds an endpoint with a nil tenant network ID and an
\* otherwise equal one whose tenant network ID points to 0.
C9_Witness ==
    /\ op = "NewEndpointList"
    /\ \E i, j \in 1..Len(ret) :
        /\ ret[i].endpoint.TenantNetworkID = NilPtr
        /\ ret[j].endpoint.TenantNetworkID = Ptr(0)
        /\ FieldValues(ret[i].endpoint) = FieldValues(ret[j].endpoint)

\* ------------------------------------------------------------------------
\* The firewall: bulk deletion of rules by substring
\* ------------------------------------------------------------------------

StrB == <<98>>

\* strings.Contains: the empty substring is contained in every line
Contains(line, substring) ==
    \E i \in 1..(Len(line) - Len(substring) + 1) :
        SubSeq(line, i, i + Len(substring) - 1) = substring

\* the rule lines that do not contain the substring, in their order
WithoutMatching(rules, substring) ==
    LET pass[i \in 0..Len(rules)] ==
            IF i = 0 THEN <<>>
            ELSE IF Contains(rules[i], substring) THEN pass[i - 1]
            ELSE Append(pass[i - 1], rules[i])
    IN pass[Len(rules)]

\* the rule lines a host may hold and the substrings a caller may pass
RuleLinePool == {StrA, StrB, StrA \o StrB, StrB \o StrA}
SubstringPool == {StrEmpty, StrA, StrB, StrA \o StrB}

DeleteOutcome(os, rules, commands, err) ==
    [os |-> os, rules |-> rules, commands |-> commands, err |-> err]

\* the bulk deletion without the guard on the empty substring
DeleteIPtablesRulesBySubstring_Unguarded(os, rules, commands, substring) ==
    IF os = "nil"
    THEN DeleteOutcome(os, rules, commands, "panic")
    ELSE DeleteOutcome(os,
                       WithoutMatching(rules, substring),
                       Append(commands, [delete |-> substring]),
                       "nil")

(***************************************************************************)
(* IPtables.deleteIPtablesRulesBySubstring.  The empty substring is        *)
(* rejected before anything else is done, also by an IPtables without an   *)
(* executor; any other substring is handed to the executor, which removes  *)
(* every rule line that contains it.  Calling the executor of a zero-value *)
(* IPtables is a nil dereference.                                          *)
(***************************************************************************)
DeleteIPtablesRulesBySubstring(os, rules, commands, substring) ==
    IF substring = StrEmpty
    THEN DeleteOutcome(os, rules, commands, "ValidationError")
    ELSE IF os = "nil"
    THEN DeleteOutcome(os, rules, commands, "panic")
    ELSE DeleteOutcome(os,
                       WithoutMatching(rules, substring),
                       Append(commands, [delete |-> substring]),
                       "nil")

InitFirewall ==
    /\ fwOs \in {"nil", "executor"}
    /\ hostRules \in BSeq(RuleLinePool, MaxHostRules)
    /\ Commands = <<>>
    /\ fwOp = "init"
    /\ fwArg = <<>>
    /\ fwErr = "nil"
    /\ HasherUnused
    /\ LifecycleUnused
    /\ EnforcerUnused
    /\ PolicyEventsUnused
    /\ ConductorUnused
    /\ SyncUnused
    /\ IpamUnused
    /\ NamespaceUnused

CallDeleteIPtablesRulesBySubstring ==
    /\ fwErr # "panic"
    /\ \E substring \in SubstringPool :
        LET out == DeleteIPtablesRulesBySubstring(fwOs, hostRules, Commands, substring)
        IN /\ substring = StrEmpty \/ Len(Commands) < MaxCommands
           /\ hostRules' = out.rules
           /\ Commands' = out.commands
           /\ fwErr' = out.err
           /\ fwArg' = substring
    /\ fwOp' = "deleteIPtablesRulesBySubstring"
    /\ UNCHANGED fwOs
    /\ UNCHANGED notFirewall

NextFirewall == CallDeleteIPtablesRulesBySubstring

SpecFirewall == InitFirewall /\ [][NextFirewall]_vars

\* C10: deleteIPtablesRulesBySubstring("") returns an error, issues no command
\* and deletes no rule, whatever the firewall object, a zero-value one included.
C10_EmptySubstringRejected ==
    [][(fwOp' = "deleteIPtablesRulesBySubstring" /\ fwArg' = StrEmpty) =>
          /\ fwErr' = "ValidationError"
          /\ Commands' = Commands
          /\ hostRules' = hostRules]_vars

\* C10 witness: a zero-value IPtables was called with "" while the host held
\* rules, and the rules are still there.
C10_Witness ==
    /\ fwOp = "deleteIPtablesRulesBySubstring"
    /\ fwArg = StrEmpty
    /\ fwOs = "nil"
    /\ fwErr = "ValidationError"
    /\ hostRules # <<>>
    /\ Commands = <<>>

\* ------------------------------------------------------------------------
\* The firewall: the chain lifecycle
\* ------------------------------------------------------------------------

\* how many reconciliation passes are run against one host
MaxPasses == 2

\* how many commands concurrent passes may issue together
MaxPassCommands == 5

\* fw.chains, in the order CreateChains walks it
ChainNames ==
    <<"ROMANA-INPUT", "ROMANA-FORWARD-IN", "ROMANA-FORWARD-OUT", "ROMANA-FORWARD-IN">>

BuiltinChains == {"INPUT", "OUTPUT", "FORWARD"}

\* rule bodies as the argument lists they are split into; the head is the chain
DivertRule == <<"INPUT", "-i", "eth0", "-j", "ROMANA-INPUT">>

DefaultRule(target) == <<"ROMANA-INPUT", "-j", target>>

DefaultTargets == {"DROP", "ACCEPT"}

\* the rule TestCreateRules hands to SetDefaultRules
DefaultRules ==
    << <<"ROMANA-INPUT", "-d", "255.255.255.255/32", "-p", "udp", "-m", "udp",
         "--sport", "68", "--dport", "67", "-j", "ACCEPT">> >>

U32Rule ==
    <<"ROMANA-INPUT", "-m", "u32", "--u32",
      "12&0xFF00FF00=0x7F000000&&16&0xFF00FF00=0x7F000000", "-j", "ACCEPT">>

Firewall(os, chains, rules, commands) ==
    [os |-> os, chains |-> chains, rules |-> rules, commands |-> commands]

Outcome(fw, err, val) == [fw |-> fw, err |-> err, ret |-> val]

(***************************************************************************)
(* Executor.Exec.  A FakeExecutor records the command and answers every    *)
(* call alike: with nil, or with the error it was built with.  The host's  *)
(* iptables answers a query (-L, -C) by what it holds, makes a chain that  *)
(* is not there yet (-N) and appends to a chain that is there (-A).  Each  *)
(* recorded command keeps the function that issued it and the answer it    *)
(* got.  The -w option (wait for the lock) is left out of the commands.    *)
(***************************************************************************)
Exec(fw, by, flag, body) ==
    LET chain == Head(body)
        known == chain \in fw.chains \cup BuiltinChains
        err == CASE fw.os = "FakeExecutor" -> "nil"
                 [] fw.os = "FakeExecutorError" -> "error"
                 [] flag = "-L" -> IF known THEN "nil" ELSE "error"
                 [] flag = "-C" ->
                        IF \E i \in 1..Len(fw.rules) : fw.rules[i] = body
                        THEN "nil" ELSE "error"
                 [] flag = "-N" -> IF known THEN "error" ELSE "nil"
                 [] OTHER -> IF known THEN "nil" ELSE "error"
        done == fw.os = "host" /\ err = "nil"
    IN Outcome([fw EXCEPT
                   !.commands = Append(@, [by |-> by, flag |-> flag,
                                           body |-> body, err |-> err]),
                   !.chains = IF done /\ flag = "-N" THEN @ \cup {chain} ELSE @,
                   !.rules = IF done /\ flag = "-A" THEN Append(@, body) ELSE @],
               err, <<>>)

\* the query error counts as "the chain is there"
IsChainExistByName_ErrorMeansPresent(fw, by, chainName) ==
    LET q == Exec(fw, by, "-L", <<chainName>>)
    IN Outcome(q.fw, q.err, q.err # "nil")

\* isChainExistByName: the chain is there if listing it gives no error
IsChainExistByName(fw, by, chainName) ==
    LET q == Exec(fw, by, "-L", <<chainName>>)
    IN Outcome(q.fw, q.err, q.err = "nil")

\* the check is made and its answer dropped: the rule is never found
IsRuleExist_NeverFound(fw, by, rule) ==
    LET q == Exec(fw, by, "-C", rule)
    IN Outcome(q.fw, q.err, FALSE)

\* isRuleExist: the rule is there if checking it gives no error
IsRuleExist(fw, by, rule) ==
    LET q == Exec(fw, by, "-C", rule)
    IN Outcome(q.fw, q.err, q.err = "nil")

\* the second half of EnsureRule(rule, EnsureLast): append the rule
AppendRule(fw, by, rule) == Exec(fw, by, "-A", rule)

\* the rule is appended without looking first
EnsureRule_Unchecked(fw, by, rule) == AppendRule(fw, by, rule)

\* EnsureRule(rule, EnsureLast): nothing to do for a rule that is there
EnsureRule(fw, by, rule) ==
    LET q == IsRuleExist(fw, by, rule)
    IN IF q.ret THEN Outcome(q.fw, "nil", <<>>) ELSE AppendRule(q.fw, by, rule)

\* detectMissingChains: the chains of fw.chains that are not there
DetectMissingChains(fw) ==
    LET after[i \in 0..Len(ChainNames)] ==
            IF i = 0 THEN Outcome(fw, "nil", <<>>)
            ELSE LET q == IsChainExistByName(after[i - 1].fw, "detectMissingChains",
                                             ChainNames[i])
                 IN Outcome(q.fw, "nil",
                            IF q.ret THEN after[i - 1].ret
                            ELSE Append(after[i - 1].ret, ChainNames[i]))
    IN after[Len(ChainNames)]

\* CreateChains: every chain of the list that is not there is made
CreateChains(fw, newChains) ==
    LET after[i \in 0..Len(newChains)] ==
            IF i = 0 THEN Outcome(fw, "nil", <<>>)
            ELSE LET q == IsChainExistByName(after[i - 1].fw, "CreateChains",
                                             newChains[i])
                     made == Exec(q.fw, "CreateChains", "-N", <<newChains[i]>>)
                 IN IF q.ret THEN Outcome(q.fw, after[i - 1].err, <<>>)
                    ELSE Outcome(made.fw,
                                 IF made.err = "nil" THEN after[i - 1].err ELSE made.err,
                                 <<>>)
    IN after[Len(newChains)]

\* DivertTrafficToRomanaIPtablesChain(fw.chains[InputChainIndex], installDivertRules)
DivertTrafficToRomanaIPtablesChain(fw) ==
    EnsureRule(fw, "DivertTrafficToRomanaIPtablesChain", DivertRule)

\* CreateDefaultRule(InputChainIndex, target)
CreateDefaultRule(fw, target) ==
    EnsureRule(fw, "CreateDefaultRule", DefaultRule(target))

\* CreateRules(InputChainIndex): every rule of the chain is ensured, in order
CreateRules(fw) ==
    LET after[i \in 0..Len(DefaultRules)] ==
            IF i = 0 THEN Outcome(fw, "nil", <<>>)
            ELSE LET e == EnsureRule(after[i - 1].fw, "CreateRules", DefaultRules[i])
                 IN IF after[i - 1].err # "nil" THEN after[i - 1] ELSE e
    IN after[Len(DefaultRules)]

\* CreateU32Rules(InputChainIndex): the rule is appended, there is no query
CreateU32Rules(fw) == Exec(fw, "CreateU32Rules", "-A", U32Rule)

\* ------------------------------------------------------------------------
\* The firewall: reconciliation passes, one step after the other
\* ------------------------------------------------------------------------

\* the elements of s at the indexes in I, in their order
Pick(s, I) ==
    LET keep[i \in 0..Len(s)] ==
            IF i = 0 THEN <<>>
            ELSE IF i \in I THEN Append(keep[i - 1], s[i])
            ELSE keep[i - 1]
    IN keep[Len(s)]

\* the rule lines an earlier pass may have left on the host
HostRuleLines == <<DivertRule, DefaultRule("DROP"), DefaultRules[1], U32Rule>>

\* the chains a rule line needs: the one it is in and the one it jumps to
RuleChains(rule) == {Head(rule), rule[Len(rule)]} \ (BuiltinChains \cup DefaultTargets)

fwNow == Firewall(fwOs, hostChains, hostRules, Commands)

InitLifecycle ==
    /\ fwOs \in {"FakeExecutor", "FakeExecutorError", "host"}
    /\ hostChains \in SUBSET Range(ChainNames)
    /\ hostRules \in {Pick(HostRuleLines, I) : I \in SUBSET (1..Len(HostRuleLines))}
    /\ fwOs # "host" => hostChains = {} /\ hostRules = <<>>
    /\ \A i \in 1..Len(hostRules) : RuleChains(hostRules[i]) \subseteq hostChains
    /\ Commands = <<>>
    /\ fwOp = "init"
    /\ fwArg = <<>>
    /\ fwErr = "nil"
    /\ fwPass = 1
    /\ fwStep = 0
    /\ fwRet = <<>>
    /\ passPc = <<>>
    /\ serialized = TRUE
    /\ HasherUnused
    /\ EnforcerUnused
    /\ PolicyEventsUnused
    /\ ConductorUnused
    /\ SyncUnused
    /\ IpamUnused
    /\ NamespaceUnused

\* the call named name made with argument a came back with out
Returned(out, name, a) ==
    /\ hostChains' = out.fw.chains
    /\ hostRules' = out.fw.rules
    /\ Commands' = out.fw.commands
    /\ fwErr' = out.err
    /\ fwRet' = out.ret
    /\ fwOp' = name
    /\ fwArg' = a
    /\ UNCHANGED <<fwOs, passPc, serialized>>
    /\ UNCHANGED notLifecycle

CallDetectMissingChains ==
    /\ fwStep = 0
    /\ fwOp # "detectMissingChains"
    /\ Returned(DetectMissingChains(fwNow), "detectMissingChains", <<>>)
    /\ UNCHANGED <<fwPass, fwStep>>

CallCreateChains ==
    /\ fwStep = 0
    /\ fwPass <= MaxPasses
    /\ Returned(CreateChains(fwNow, ChainNames), "CreateChains", ChainNames)
    /\ fwStep' = 1
    /\ UNCHANGED fwPass

CallDivertTrafficToRomanaIPtablesChain ==
    /\ fwStep = 1
    /\ Returned(DivertTrafficToRomanaIPtablesChain(fwNow),
                "DivertTrafficToRomanaIPtablesChain", <<>>)
    /\ fwStep' = 2
    /\ UNCHANGED fwPass

CallCreateDefaultRule ==
    /\ fwStep = 2
    /\ \E target \in DefaultTargets :
        Returned(CreateDefaultRule(fwNow, target), "CreateDefaultRule", <<target>>)
    /\ fwStep' = 3
    /\ UNCHANGED fwPass

CallCreateRules ==
    /\ fwStep = 3
    /\ Returned(CreateRules(fwNow), "CreateRules", <<>>)
    /\ fwStep' = 4
    /\ UNCHANGED fwPass

\* the last step of a pass
CallCreateU32Rules ==
    /\ fwStep = 4
    /\ Returned(CreateU32Rules(fwNow), "CreateU32Rules", <<>>)
    /\ fwStep' = 0
    /\ fwPass' = fwPass + 1

NextLifecycle ==
    \/ CallDetectMissingChains
    \/ CallCreateChains
    \/ CallDivertTrafficToRomanaIPtablesChain
    \/ CallCreateDefaultRule
    \/ CallCreateRules
    \/ CallCreateU32Rules

SpecLifecycle == InitLifecycle /\ [][NextLifecycle]_vars

\* ------------------------------------------------------------------------
\* Properties of the chain lifecycle
\* ------------------------------------------------------------------------

IsQuery(c) == c.flag \in {"-L", "-C"}

IsMutation(c) == c.flag \in {"-N", "-A", "-I", "-D"}

\* the query that goes with a mutating command
QueryFlagFor(c) == IF c.flag = "-N" THEN "-L" ELSE "-C"

CheckThenMutate ==
    {"CreateChains", "DivertTrafficToRomanaIPtablesChain", "CreateDefaultRule",
     "CreateRules"}

\* the indexes of the commands the step being taken adds to the record
Issued == (Len(Commands) + 1)..Len(Commands')

C12_QueryErrorMeansMissing ==
    /\ \A i \in 1..Len(Commands) :
        (/\ Commands[i].by = "DivertTrafficToRomanaIPtablesChain"
         /\ Commands[i].flag = "-C"
         /\ Commands[i].err # "nil") =>
            /\ i < Len(Commands)
            /\ Commands[i + 1].by = Commands[i].by
            /\ Commands[i + 1].flag = "-A"
            /\ Commands[i + 1].body = Commands[i].body
            /\ i + 2 <= Len(Commands) =>
                  ~(/\ Commands[i + 2].by = Commands[i].by
                    /\ Commands[i + 2].flag = "-A")
    /\ (/\ fwOp = "detectMissingChains"
        /\ \A k \in (Len(Commands) - Len(ChainNames) + 1)..Len(Commands) :
              Commands[k].err # "nil") => fwRet = ChainNames

\* C12 witness: with an executor that fails every call the divert rule was
\* queried and appended, and detectMissingChains then reported all chains.
C12_Witness ==
    /\ fwOs = "FakeExecutorError"
    /\ fwOp = "detectMissingChains"
    /\ fwRet = ChainNames
    /\ \E i \in 1..(Len(Commands) - 1) :
        /\ Commands[i].by = "DivertTrafficToRomanaIPtablesChain"
        /\ Commands[i].flag = "-C"
        /\ Commands[i].err = "error"
        /\ Commands[i + 1].flag = "-A"
        /\ Commands[i + 1].body = DivertRule

\* a host that answers every existence query of a pass with success: an
\* executor that never fails, or a host that holds every chain and every rule
\* the pass asks for
AnswersYes(fw) ==
    \/ fw.os = "FakeExecutor"
    \/ /\ fw.os = "host"
       /\ Range(ChainNames) \subseteq fw.chains
       /\ DivertRule \in Range(fw.rules)
       /\ Range(DefaultRules) \subseteq Range(fw.rules)
       /\ \E target \in DefaultTargets : DefaultRule(target) \in Range(fw.rules)

\* C13: on a host that answers every existence query with success, a step of
\* the second or a later pass (create chains, divert traffic, default rule,
\* compiled rules, u32 rules) issues no mutating command and leaves the host's
\* chains and rules as they were.
C13_SecondPassIssuesNothing ==
    [][(/\ fwPass >= 2
        /\ fwOp' # "detectMissingChains"
        /\ AnswersYes(fwNow)
        /\ \A i \in Issued : IsQuery(Commands'[i]) => Commands'[i].err = "nil") =>
          /\ \A i \in Issued : ~IsMutation(Commands'[i])
          /\ hostRules' = hostRules
          /\ hostChains' = hostChains]_vars

\* ------------------------------------------------------------------------
\* The firewall: two reconciliation passes at once
\* ------------------------------------------------------------------------

(***************************************************************************)
(* Each pass ensures rules with EnsureRule, which is two calls of the      *)
(* executor: the -C check, then the -A append if the check found nothing.  *)
(* Another pass may run between the two.  passPc[p] is <<>> while pass p   *)
(* is between rules and <<rule>> once its check of rule found nothing.     *)
(***************************************************************************)
Passes == {1, 2}

\* the rules the passes ensure
EnsureRulePool == {DivertRule, DefaultRule("DROP")}

\* a caller that serializes the passes starts one only while no other runs
MayStart(p) == serialized => \A q \in Passes \ {p} : passPc[q] = <<>>

InitConcurrent ==
    /\ fwOs = "host"
    /\ hostChains = Range(ChainNames)
    /\ hostRules \in {Pick(<<DivertRule, DefaultRule("DROP")>>, I) : I \in SUBSET {1, 2}}
    /\ Commands = <<>>
    /\ fwOp = "init"
    /\ fwArg = <<>>
    /\ fwErr = "nil"
    /\ fwPass = 1
    /\ fwStep = 0
    /\ fwRet = <<>>
    /\ passPc = [p \in Passes |-> <<>>]
    /\ serialized \in BOOLEAN
    /\ HasherUnused
    /\ EnforcerUnused
    /\ PolicyEventsUnused
    /\ ConductorUnused
    /\ SyncUnused
    /\ IpamUnused
    /\ NamespaceUnused

\* the first half of EnsureRule in pass p: isRuleExist
PassIsRuleExist(p) ==
    /\ passPc[p] = <<>>
    /\ MayStart(p)
    /\ Len(Commands) < MaxPassCommands
    /\ \E rule \in EnsureRulePool :
        LET q == IsRuleExist(fwNow, p, rule)
        IN /\ Commands' = q.fw.commands
           /\ fwErr' = q.err
           /\ fwArg' = rule
           /\ passPc' = [passPc EXCEPT ![p] = IF q.ret THEN <<>> ELSE <<rule>>]
    /\ fwOp' = "isRuleExist"
    /\ UNCHANGED <<fwOs, hostChains, hostRules, fwPass, fwStep, fwRet, serialized>>
    /\ UNCHANGED notLifecycle

\* the second half of EnsureRule in pass p: the append
PassAppendRule(p) ==
    /\ passPc[p] # <<>>
    /\ LET a == AppendRule(fwNow, p, passPc[p][1])
       IN /\ Commands' = a.fw.commands
          /\ hostRules' = a.fw.rules
          /\ fwErr' = a.err
          /\ fwArg' = passPc[p][1]
    /\ passPc' = [passPc EXCEPT ![p] = <<>>]
    /\ fwOp' = "EnsureRule"
    /\ UNCHANGED <<fwOs, hostChains, fwPass, fwStep, fwRet, serialized>>
    /\ UNCHANGED notLifecycle

NextConcurrent ==
    \E p \in Passes :
        \/ PassIsRuleExist(p)
        \/ PassAppendRule(p)

SpecConcurrent == InitConcurrent /\ [][NextConcurrent]_vars

\* C14: a rule installed by check-then-append is in its chain twice only if
\* the passes were not run one at a time: with serialized passes and truthful
\* queries every such rule is there at most once, whatever the number of
\* passes.
C14_SerializedAtMostOnce ==
    serialized => \A rule \in EnsureRulePool : Count(hostRules, rule) <= 1

\* C14 witness: two interleaved passes both ran the -C check of the divert rule
\* before either ran -A, and the divert rule is now in the chain twice.
C14_Witness ==
    /\ ~serialized
    /\ Len(Commands) = 4
    /\ \A i \in 1..4 : Commands[i].body = DivertRule
    /\ Commands[1].flag = "-C"
    /\ Commands[2].flag = "-C"
    /\ Commands[1].by # Commands[2].by
    /\ Commands[3].flag = "-A"
    /\ Commands[4].flag = "-A"
    /\ Count(hostRules, DivertRule) = 2

\* ------------------------------------------------------------------------
\* The enforcer: makePolicies and makePolicySets
\* ------------------------------------------------------------------------

\* how many policies the list given to makePolicies holds at most
MaxPolicies == 2

ApiEndpoint(cidr, tenant, segment) ==
    [Cidr |-> cidr, TenantID |-> tenant, SegmentID |-> segment]

ApiRule(proto, ports) == [Protocol |-> proto, Ports |-> ports]

ApiPolicy(id, direction, appliedTo, ingress) ==
    [ID |-> id, Direction |-> direction, AppliedTo |-> appliedTo, Ingress |-> ingress]

WithCidr(s) == ApiEndpoint(s, "", "")
WithTenant(t) == ApiEndpoint("", t, "")
WithTenantSegment(t, s) == ApiEndpoint("", t, s)

PolicyDirectionIngress == "ingress"
PolicyDirectionEgress == "egress"

SchemePolicyOnTop == "policy_on_top"
SchemeTargetOnTop == "target_on_top"

\* test case "ingress basic"
IngressBasic ==
    ApiPolicy("ingress basic", PolicyDirectionIngress,
              <<WithTenant("T1000")>>,
              << [Peers |-> <<WithCidr("10.0.0.0/99")>>,
                  Rules |-> <<ApiRule("TCP", <<80, 99, 8080>>)>>] >>)

\* test case "egress basic"
EgressBasic ==
    ApiPolicy("egress basic", PolicyDirectionEgress,
              <<WithTenant("T1000"), WithTenantSegment("T800", "John")>>,
              << [Peers |-> <<WithCidr("10.0.0.0/99"), WithTenant("T3000"),
                              WithTenantSegment("T100K", "skynet")>>,
                  Rules |-> <<ApiRule("TCP", <<80, 99, 8080>>),
                              ApiRule("UDP", <<53, 1194>>)>>] >>)

\* an ingress policy for the other target, with a peer block that parses
IngressJohn ==
    ApiPolicy("ingress john", PolicyDirectionIngress,
              <<WithTenantSegment("T800", "John")>>,
              << [Peers |-> <<WithCidr("10.1.0.0/28"), WithCidr("10.0.0.0/99")>>,
                  Rules |-> <<ApiRule("UDP", <<53, 1194>>)>>] >>)

ApiPolicyPool == {IngressBasic, EgressBasic, IngressJohn}

\* the endpoints a host may hold: what the membership predicate may accept
TargetPool == {WithTenant("T1000"), WithTenantSegment("T800", "John")}

\* the strings of the peers above that net.ParseCIDR accepts
ParsesAsCidr(s) == s \in {"10.1.0.0/28"}

\* the iptables model every test starts from: one empty table "filter"
MakeEmptyIptables == [Tables |-> << [Name |-> "filter", Chains |-> <<>>] >>]

\* the second run writes into the model the first run filled
FreshIptables_Reused(previous) == previous

\* each run gets a model of its own, whatever an earlier run produced
FreshIptables(previous) == MakeEmptyIptables

\* every policy is compiled policy-on-top
DetectScheme_AlwaysPolicyOnTop(direction) == SchemePolicyOnTop

\* the nesting scheme of a policy: by its direction
DetectScheme(direction) ==
    IF direction = PolicyDirectionEgress THEN SchemeTargetOnTop ELSE SchemePolicyOnTop

Predicate(kind, tokens) == [kind |-> kind, tokens |-> tokens]

\* matches the local endpoint the policy is applied to
TargetPredicate(target) ==
    Predicate("target", <<"--target", target.TenantID, target.SegmentID>>)

\* matches the address set of the policy's peers
PeerPredicate(policy) == Predicate("peer", <<"--match-set", policy.ID>>)

\* matches protocol and ports of a rule
ProtocolPredicate(rule) ==
    Predicate("protocol",
              <<"-p", rule.Protocol>> \o [i \in 1..Len(rule.Ports) |-> ToString(rule.Ports[i])])

\* the predicates of one compiled rule, nested as the scheme says
Nest(scheme, policyPart, targetPart) ==
    IF scheme = SchemePolicyOnTop THEN policyPart \o targetPart
    ELSE targetPart \o policyPart

CompiledRule(policy, target, rule) ==
    [policy |-> policy.ID,
     scheme |-> DetectScheme(policy.Direction),
     predicates |-> Nest(DetectScheme(policy.Direction),
                         <<PeerPredicate(policy), ProtocolPredicate(rule)>>,
                         <<TargetPredicate(target)>>)]

\* the rules of one policy for one of its targets: ingress entries and their
\* rules in order
TargetRules(policy, target) ==
    ConcatAll([g \in 1..Len(policy.Ingress) |->
                  [r \in 1..Len(policy.Ingress[g].Rules) |->
                      CompiledRule(policy, target, policy.Ingress[g].Rules[r])]])

\* the rules of a policy whatever the membership predicate says
PolicyRules_Ungated(policy, local) ==
    ConcatAll([t \in 1..Len(policy.AppliedTo) |-> TargetRules(policy, policy.AppliedTo[t])])

\* the rules of a policy: those of the targets the membership predicate accepts
PolicyRules(policy, local) ==
    ConcatAll([t \in 1..Len(policy.AppliedTo) |->
                  IF policy.AppliedTo[t] \in local
                  THEN TargetRules(policy, policy.AppliedTo[t])
                  ELSE <<>>])

\* the table with the rules added, in a chain named after their policy
WithRules(table, name, rules) ==
    IF rules = <<>> THEN table
    ELSE [table EXCEPT !.Chains = Append(@, [Name |-> name, Rules |-> rules])]

(***************************************************************************)
(* makePolicies(policies, isTarget, &iptables): the policies are compiled  *)
(* in list order into the first table of the model, after whatever the     *)
(* table holds already.                                                    *)
(***************************************************************************)
MakePolicies(policies, local, iptables) ==
    LET after[i \in 0..Len(policies)] ==
            IF i = 0 THEN iptables.Tables[1]
            ELSE WithRules(after[i - 1], policies[i].ID, PolicyRules(policies[i], local))
    IN [iptables EXCEPT !.Tables[1] = after[Len(policies)]]

\* IPtables.Render: tables, chains and rules in the order they were added
RenderChain(chain) ==
    << <<":", chain.Name>> >> \o
    [r \in 1..Len(chain.Rules) |->
        <<"-A", chain.Name>> \o
        ConcatAll([k \in 1..Len(chain.Rules[r].predicates) |->
                      chain.Rules[r].predicates[k].tokens])]

RenderTable(table) ==
    << <<"*", table.Name>> >> \o
    ConcatAll([c \in 1..Len(table.Chains) |-> RenderChain(table.Chains[c])]) \o
    << <<"COMMIT">> >>

Render(iptables) ==
    ConcatAll([t \in 1..Len(iptables.Tables) |-> RenderTable(iptables.Tables[t])])

\* the peers of all ingress entries of a policy, in order
PolicyPeers(policy) ==
    ConcatAll([g \in 1..Len(policy.Ingress) |-> policy.Ingress[g].Peers])

\* only the blocks that parse become members
MakePolicySets_ParsedOnly(policy) ==
    LET peers == PolicyPeers(policy)
        members[i \in 0..Len(peers)] ==
            IF i = 0 THEN <<>>
            ELSE IF ParsesAsCidr(peers[i].Cidr)
            THEN Append(members[i - 1], [Elem |-> peers[i].Cidr])
            ELSE members[i - 1]
    IN [Name |-> policy.ID, Members |-> members[Len(peers)]]

\* makePolicySets(policy): one set, with a member for every peer that has a
\* Cidr, the text of the Cidr as it is
MakePolicySets(policy) ==
    LET peers == PolicyPeers(policy)
        members[i \in 0..Len(peers)] ==
            IF i = 0 THEN <<>>
            ELSE IF peers[i].Cidr # ""
            THEN Append(members[i - 1], [Elem |-> peers[i].Cidr])
            ELSE members[i - 1]
    IN [Name |-> policy.ID, Members |-> members[Len(peers)]]

\* lists of distinct policies
PolicyLists ==
    {l \in BSeq(ApiPolicyPool, MaxPolicies) :
        \A i, j \in 1..Len(l) : i # j => l[i] # l[j]}

InitEnforcer ==
    /\ enPolicies \in PolicyLists
    /\ enLocal \in SUBSET TargetPool
    /\ iptablesGold = <<>>
    /\ iptablesTest = <<>>
    /\ enSets = <<>>
    /\ enOp = "init"
    /\ HasherUnused
    /\ FirewallUnused
    /\ LifecycleUnused
    /\ PolicyEventsUnused
    /\ ConductorUnused
    /\ SyncUnused
    /\ IpamUnused
    /\ NamespaceUnused

\* the run that writes the golden rendering
CallMakePolicies ==
    /\ enOp = "init"
    /\ iptablesGold' = MakePolicies(enPolicies, enLocal, MakeEmptyIptables)
    /\ enOp' = "makePolicies"
    /\ UNCHANGED <<enPolicies, enLocal, iptablesTest, enSets>>
    /\ UNCHANGED notEnforcer

\* the run that is compared with the golden rendering
CallMakePoliciesAgain ==
    /\ enOp = "makePolicies"
    /\ iptablesTest' = MakePolicies(enPolicies, enLocal, FreshIptables(iptablesGold))
    /\ enOp' = "makePoliciesAgain"
    /\ UNCHANGED <<enPolicies, enLocal, iptablesGold, enSets>>
    /\ UNCHANGED notEnforcer

CallMakePolicySets ==
    /\ enOp = "init"
    /\ \E i \in 1..Len(enPolicies) :
        enSets' = [policy |-> enPolicies[i], set |-> MakePolicySets(enPolicies[i])]
    /\ enOp' = "makePolicySets"
    /\ UNCHANGED <<enPolicies, enLocal, iptablesGold, iptablesTest>>
    /\ UNCHANGED notEnforcer

NextEnforcer ==
    \/ CallMakePolicies
    \/ CallMakePoliciesAgain
    \/ CallMakePolicySets

SpecEnforcer == InitEnforcer /\ [][NextEnforcer]_vars

\* ------------------------------------------------------------------------
\* Properties of the enforcer
\* ------------------------------------------------------------------------

\* every rule of every chain of every table of the model
ModelRules(iptables) ==
    ConcatAll([t \in 1..Len(iptables.Tables) |->
                  ConcatAll([c \in 1..Len(iptables.Tables[t].Chains) |->
                                iptables.Tables[t].Chains[c].Rules])])

\* the membership predicate holds for some AppliedTo entry of the policy
HasLocalTarget(policy) ==
    \E t \in 1..Len(policy.AppliedTo) : policy.AppliedTo[t] \in enLocal

\* the positions of the predicates of the given kinds in a compiled rule
Positions(rule, kinds) ==
    {k \in 1..Len(rule.predicates) : rule.predicates[k].kind \in kinds}

\* in the rule, predicates of the first kinds all come before those of the others
NestedBefore(rule, first, others) ==
    /\ Positions(rule, first) # {}
    /\ Positions(rule, others) # {}
    /\ \A a \in Positions(rule, first) : \A b \in Positions(rule, others) : a < b

\* C15: after makePolicies a policy none of whose AppliedTo entries satisfies
\* the membership predicate has no rule in any chain of the model, and every
\* rule in the model belongs to a policy with a matching AppliedTo entry.
C15_MembershipGating ==
    enOp = "makePolicies" =>
        LET rules == ModelRules(iptablesGold)
        IN /\ \A i \in 1..Len(enPolicies) :
                ~HasLocalTarget(enPolicies[i]) =>
                    \A k \in 1..Len(rules) : rules[k].policy # enPolicies[i].ID
           /\ \A k \in 1..Len(rules) :
                \E i \in 1..Len(enPolicies) :
                    /\ rules[k].policy = enPolicies[i].ID
                    /\ HasLocalTarget(enPolicies[i])

\* C15 witness: of two policies one has no local target and one has; the
\* model holds rules, all of them of the second.
C15_Witness ==
    /\ enOp = "makePolicies"
    /\ enPolicies = <<IngressBasic, IngressJohn>>
    /\ enLocal = {WithTenantSegment("T800", "John")}
    /\ ModelRules(iptablesGold) # <<>>
    /\ \A k \in 1..Len(ModelRules(iptablesGold)) :
        ModelRules(iptablesGold)[k].policy = IngressJohn.ID

\* C16: every compiled rule of an ingress policy is nested policy-on-top (peer
\* and protocol predicates before the target predicate) and every compiled
\* rule of an egress policy target-on-top (target predicate first).
C16_SchemeByDirection ==
    enOp = "makePolicies" =>
        LET rules == ModelRules(iptablesGold)
        IN \A k \in 1..Len(rules) : \A i \in 1..Len(enPolicies) :
            rules[k].policy = enPolicies[i].ID =>
                IF enPolicies[i].Direction = PolicyDirectionIngress
                THEN /\ rules[k].scheme = SchemePolicyOnTop
                     /\ NestedBefore(rules[k], {"peer", "protocol"}, {"target"})
                ELSE /\ enPolicies[i].Direction = PolicyDirectionEgress
                     /\ rules[k].scheme = SchemeTargetOnTop
                     /\ NestedBefore(rules[k], {"target"}, {"peer", "protocol"})

\* C16 witness: the model holds rules of an ingress and of an egress policy.
C16_Witness ==
    /\ enOp = "makePolicies"
    /\ enPolicies = <<IngressBasic, EgressBasic>>
    /\ \E k, l \in 1..Len(ModelRules(iptablesGold)) :
        /\ ModelRules(iptablesGold)[k].policy = IngressBasic.ID
        /\ ModelRules(iptablesGold)[l].policy = EgressBasic.ID

C18_CidrPeersVerbatim ==
    enOp = "makePolicySets" =>
        LET peers == PolicyPeers(enSets.policy)
            members == enSets.set.Members
        IN /\ \A i \in 1..Len(peers) :
                peers[i].Cidr # "" =>
                    \E m \in 1..Len(members) : members[m].Elem = peers[i].Cidr
           /\ enSets.policy = IngressBasic => members = <<[Elem |-> "10.0.0.0/99"]>>
           /\ enSets.policy = EgressBasic =>
                \E m \in 1..Len(members) : members[m].Elem = "10.0.0.0/99"

\* C18 witness: makePolicySets ran on "egress basic", whose peers are a Cidr, a
\* tenant and a tenant with segment, and the set holds 10.0.0.0/99.
C18_Witness ==
    /\ enOp = "makePolicySets"
    /\ enSets.policy = EgressBasic
    /\ enSets.set.Members = <<[Elem |-> "10.0.0.0/99"]>>

\* ------------------------------------------------------------------------
\* The kubernetes listener: events
\* ------------------------------------------------------------------------

\* how many events one batch of network policy events holds at most
MaxBatch == 3

\* how many namespace events the conductor handles
MaxEvents == 4

KubeEventAdded == "ADDED"
KubeEventDeleted == "DELETED"
KubeEventModified == "MODIFIED"
InternalEventDeleteAll == "_DELETE_ALL"

Event(type, object) == [Type |-> type, Object |-> object]

\* ------------------------------------------------------------------------
\* The kubernetes listener: handleNetworkPolicyEvents
\* ------------------------------------------------------------------------

\* v1beta1.NetworkPolicy objects
NetworkPolicy(name) == [Kind |-> "NetworkPolicy", Name |-> name]

NetworkPolicyPool == {NetworkPolicy("np1"), NetworkPolicy("np2")}

NetworkPolicyEventPool ==
    {Event(type, object) :
        type \in {KubeEventAdded, KubeEventDeleted, KubeEventModified},
        object \in NetworkPolicyPool}

\* the romana policy a kubernetes policy translates to
TranslateNetworkPolicy(kubePolicy) ==
    [Name |-> kubePolicy.Name, ExternalID |-> kubePolicy.Name, Direction |-> "ingress"]

\* the objects of the events of one type, in the order of the events
ObjectsOf(events, type) ==
    LET picked[i \in 0..Len(events)] ==
            IF i = 0 THEN <<>>
            ELSE IF events[i].Type = type THEN Append(picked[i - 1], events[i].Object)
            ELSE picked[i - 1]
    IN picked[Len(events)]

(***************************************************************************)
(* PTranslator.Kube2RomanaBulk: the policies that translate, translated,   *)
(* the ones that do not, as they are, and an error if there is one of      *)
(* those.  Which policies fail to translate is up to the translator.       *)
(***************************************************************************)
Kube2RomanaBulk(kubePolicies, failing) ==
    LET done[i \in 0..Len(kubePolicies)] ==
            IF i = 0 THEN [romana |-> <<>>, kube |-> <<>>]
            ELSE IF kubePolicies[i] \in failing
            THEN [done[i - 1] EXCEPT !.kube = Append(@, kubePolicies[i])]
            ELSE [done[i - 1] EXCEPT
                    !.romana = Append(@, TranslateNetworkPolicy(kubePolicies[i]))]
        out == done[Len(kubePolicies)]
    IN [romana |-> out.romana, kube |-> out.kube,
        err |-> IF out.kube = <<>> THEN "nil" ELSE "TranslatorError"]

\* the applyNetworkPolicy calls for a list of romana policies
ApplyEach(action, policies) ==
    [i \in 1..Len(policies) |-> [action |-> action, policy |-> policies[i]]]

\* a batch one of whose translations failed is dropped as a whole
HandleNetworkPolicyEvents_AllOrNothing(events, failing) ==
    LET created == Kube2RomanaBulk(ObjectsOf(events, KubeEventAdded), failing)
        deleted == Kube2RomanaBulk(ObjectsOf(events, KubeEventDeleted), failing)
    IN [err |-> <<created.err, deleted.err>>,
        applied |-> (IF created.err = "nil"
                     THEN ApplyEach("networkPolicyActionAdd", created.romana)
                     ELSE <<>>)
                    \o (IF deleted.err = "nil"
                        THEN ApplyEach("networkPolicyActionDelete", deleted.romana)
                        ELSE <<>>)]

\* every event is translated and applied by itself, in the order of the batch
HandleNetworkPolicyEvents_InEventOrder(events, failing) ==
    LET one[i \in 1..Len(events)] ==
            IF events[i].Type \in {KubeEventAdded, KubeEventDeleted}
            THEN Kube2RomanaBulk(<<events[i].Object>>, failing)
            ELSE [romana |-> <<>>, kube |-> <<>>, err |-> "nil"]
        done[i \in 0..Len(events)] ==
            IF i = 0 THEN <<>>
            ELSE done[i - 1] \o
                 ApplyEach(IF events[i].Type = KubeEventAdded
                           THEN "networkPolicyActionAdd"
                           ELSE "networkPolicyActionDelete", one[i].romana)
    IN [err |-> <<"nil", "nil">>, applied |-> done[Len(events)]]

(***************************************************************************)
(* handleNetworkPolicyEvents: the ADDED and the DELETED events are         *)
(* translated as two lists, the errors are logged, and every policy that   *)
(* did translate is applied: the created ones first, then the deleted.     *)
(***************************************************************************)
HandleNetworkPolicyEvents(events, failing) ==
    LET created == Kube2RomanaBulk(ObjectsOf(events, KubeEventAdded), failing)
        deleted == Kube2RomanaBulk(ObjectsOf(events, KubeEventDeleted), failing)
    IN [err |-> <<created.err, deleted.err>>,
        applied |-> ApplyEach("networkPolicyActionAdd", created.romana)
                    \o ApplyEach("networkPolicyActionDelete", deleted.romana)]

InitPolicyEvents ==
    /\ npEvents = <<>>
    /\ npFailing \in SUBSET NetworkPolicyPool
    /\ npApplied = <<>>
    /\ npErr = <<>>
    /\ HasherUnused
    /\ FirewallUnused
    /\ LifecycleUnused
    /\ EnforcerUnused
    /\ ConductorUnused
    /\ SyncUnused
    /\ IpamUnused
    /\ NamespaceUnused

CallHandleNetworkPolicyEvents ==
    /\ npErr = <<>>
    /\ \E events \in BSeq(NetworkPolicyEventPool, MaxBatch) :
        LET out == HandleNetworkPolicyEvents(events, npFailing)
        IN /\ npEvents' = events
           /\ npApplied' = out.applied
           /\ npErr' = out.err
    /\ UNCHANGED npFailing
    /\ UNCHANGED notPolicyEvents

NextPolicyEvents == CallHandleNetworkPolicyEvents

SpecPolicyEvents == InitPolicyEvents /\ [][NextPolicyEvents]_vars

\* the action events of the type are applied with
ActionOf(type) ==
    IF type = KubeEventAdded THEN "networkPolicyActionAdd" ELSE "networkPolicyActionDelete"

\* C19: whatever errors Kube2RomanaBulk reports for a batch, every ADDED or
\* DELETED policy of the batch that translates is applied (add for ADDED,
\* delete for DELETED), and nothing else is: no policy that failed to
\* translate, and no policy under an action no event asked for.
C19_PartialBatchApplied ==
    npErr # <<>> =>
        /\ \A i \in 1..Len(npEvents) :
            (/\ npEvents[i].Type \in {KubeEventAdded, KubeEventDeleted}
             /\ npEvents[i].Object \notin npFailing) =>
                \E k \in 1..Len(npApplied) :
                    /\ npApplied[k].action = ActionOf(npEvents[i].Type)
                    /\ npApplied[k].policy = TranslateNetworkPolicy(npEvents[i].Object)
        /\ \A k \in 1..Len(npApplied) :
            /\ \A kubePolicy \in npFailing :
                npApplied[k].policy # TranslateNetworkPolicy(kubePolicy)
            /\ \E i \in 1..Len(npEvents) :
                /\ npEvents[i].Type \in {KubeEventAdded, KubeEventDeleted}
                /\ npApplied[k].action = ActionOf(npEvents[i].Type)
                /\ npApplied[k].policy = TranslateNetworkPolicy(npEvents[i].Object)

\* C19 witness: the translation of the created policies of a batch reported
\* an error, and the policy that does translate was added, and deleted, all
\* the same.
C19_Witness ==
    /\ npErr = <<"TranslatorError", "nil">>
    /\ npFailing = {NetworkPolicy("np2")}
    /\ npApplied =
        <<[action |-> "networkPolicyActionAdd",
           policy |-> TranslateNetworkPolicy(NetworkPolicy("np1"))],
          [action |-> "networkPolicyActionDelete",
           policy |-> TranslateNetworkPolicy(NetworkPolicy("np1"))]>>

\* ------------------------------------------------------------------------
\* The kubernetes listener: manageResources
\* ------------------------------------------------------------------------

\* v1.Namespace objects; an event made by Event{Type: ...} alone has no object
Namespace(uid) == [Kind |-> "Namespace", UID |-> uid, Name |-> uid]

NoObject == [Kind |-> "nil"]

\* the informer is given &v1.Namespace{} as the type of its objects: what it
\* hands to AddFunc, UpdateFunc and DeleteFunc may be the pointer
NamespacePointer(uid) == [Kind |-> "*Namespace", UID |-> uid, Name |-> uid]

UidPool == {"uid1", "uid2"}

\* what nsWatch and watchEvents put on the conductor's channel
NamespaceEventPool ==
    {Event(type, Namespace(uid)) :
        type \in {KubeEventAdded, KubeEventDeleted, KubeEventModified},
        uid \in UidPool}
    \cup {Event(type, NamespacePointer(uid)) :
        type \in {KubeEventAdded, KubeEventDeleted}, uid \in UidPool}
    \cup {Event(InternalEventDeleteAll, NoObject)}

Known(terms, uid) == \E t \in terms : t.uid = uid

\* the entries of the map for the key
EntriesOf(terms, uid) == {t \in terms : t.uid = uid}

\* close(c) for each channel of the set: a channel counts its closes
CloseAll(chans, cs) ==
    [c \in 1..Len(chans) |->
        IF c \in cs THEN [closes |-> chans[c].closes + 1] ELSE chans[c]]

Resources(terms, chans, last, outcome) ==
    [terminators |-> terms, channels |-> chans, lastEventPerNamespace |-> last,
     outcome |-> outcome]

\* an ADDED event for a known uid makes a new channel all the same
ManageResources_AddedOverwrites(event, terms, chans, last) ==
    IF event.Object.Kind # "Namespace"
    THEN Resources(terms, chans, last, "panic")
    ELSE LET uid == event.Object.UID
         IN IF event.Type = KubeEventAdded
            THEN Resources((terms \ EntriesOf(terms, uid))
                               \cup {[uid |-> uid, chan |-> Len(chans) + 1]},
                           Append(chans, [closes |-> 0]), last, "added")
            ELSE IF event.Type = KubeEventDeleted
            THEN IF ~Known(terms, uid)
                 THEN Resources(terms, chans, last, "ignored")
                 ELSE Resources(terms \ EntriesOf(terms, uid),
                                CloseAll(chans, {t.chan : t \in EntriesOf(terms, uid)}),
                                last \ {uid}, "deleted")
            ELSE Resources(terms, chans, last, "unknown")

\* a DELETED event for an unknown uid forgets the resource version all the same
ManageResources_DeletedForgets(event, terms, chans, last) ==
    IF event.Object.Kind # "Namespace"
    THEN Resources(terms, chans, last, "panic")
    ELSE LET uid == event.Object.UID
         IN IF event.Type = KubeEventAdded
            THEN IF Known(terms, uid)
                 THEN Resources(terms, chans, last, "ignored")
                 ELSE Resources(terms \cup {[uid |-> uid, chan |-> Len(chans) + 1]},
                                Append(chans, [closes |-> 0]), last, "added")
            ELSE IF event.Type = KubeEventDeleted
            THEN Resources(terms \ EntriesOf(terms, uid),
                           CloseAll(chans, {t.chan : t \in EntriesOf(terms, uid)}),
                           last \ {uid},
                           IF Known(terms, uid) THEN "deleted" ELSE "ignored")
            ELSE Resources(terms, chans, last, "unknown")

(***************************************************************************)
(* kubeListener.manageResources.  The object of the event must be a        *)
(* v1.Namespace, or the function panics.  ADDED makes a channel for a uid  *)
(* that has none, DELETED closes and removes the channel of a uid that     *)
(* has one and forgets its resource version, _DELETE_ALL does so for every *)
(* uid; every other event changes nothing.                                 *)
(***************************************************************************)
ManageResources(event, terms, chans, last) ==
    IF event.Object.Kind # "Namespace"
    THEN Resources(terms, chans, last, "panic")
    ELSE LET uid == event.Object.UID
         IN IF event.Type = KubeEventAdded
            THEN IF Known(terms, uid)
                 THEN Resources(terms, chans, last, "ignored")
                 ELSE Resources(terms \cup {[uid |-> uid, chan |-> Len(chans) + 1]},
                                Append(chans, [closes |-> 0]), last, "added")
            ELSE IF event.Type = KubeEventDeleted
            THEN IF ~Known(terms, uid)
                 THEN Resources(terms, chans, last, "ignored")
                 ELSE Resources(terms \ EntriesOf(terms, uid),
                                CloseAll(chans, {t.chan : t \in EntriesOf(terms, uid)}),
                                last \ {uid}, "deleted")
            ELSE IF event.Type = InternalEventDeleteAll
            THEN Resources({}, CloseAll(chans, {t.chan : t \in terms}),
                           last \ {t.uid : t \in terms}, "deleted all")
            ELSE Resources(terms, chans, last, "unknown")

\* the conductor starts with an empty map; the resource version counters are
\* kept by the policy watchers
InitConductor ==
    /\ terminators = {}
    /\ channels = <<>>
    /\ lastEventPerNamespace \in SUBSET UidPool
    /\ nsEvents = <<>>
    /\ HasherUnused
    /\ FirewallUnused
    /\ LifecycleUnused
    /\ EnforcerUnused
    /\ PolicyEventsUnused
    /\ SyncUnused
    /\ IpamUnused
    /\ NamespaceUnused

\* the conductor takes the next event from its channel; a panic ends it
CallManageResources ==
    /\ Len(nsEvents) < MaxEvents
    /\ \A i \in 1..Len(nsEvents) : nsEvents[i].outcome # "panic"
    /\ \E event \in NamespaceEventPool :
        LET out == ManageResources(event, terminators, channels, lastEventPerNamespace)
        IN /\ terminators' = out.terminators
           /\ channels' = out.channels
           /\ lastEventPerNamespace' = out.lastEventPerNamespace
           /\ nsEvents' = Append(nsEvents, [event |-> event, outcome |-> out.outcome])
    /\ UNCHANGED notConductor

NextConductor == CallManageResources

SpecConductor == InitConductor /\ [][NextConductor]_vars

\* the uids whose latest ADDED or DELETED event in the log is an ADDED one
LastAdded(log) ==
    {uid \in UidPool :
        \E i \in 1..Len(log) :
            /\ log[i].event.Type = KubeEventAdded
            /\ log[i].event.Object.UID = uid
            /\ \A j \in (i + 1)..Len(log) :
                ~(/\ log[j].event.Type = KubeEventDeleted
                  /\ log[j].event.Object.UID = uid)}

\* C20: after any sequence of namespace events that manageResources took
\* without a panic and that has no _DELETE_ALL, the keys of terminators are
\* the uids whose latest ADDED or DELETED event was ADDED, each with one
\* channel; every channel in the map is open, and every channel that is no
\* longer in the map was closed exactly once.
C20_SupervisorMap ==
    (\A i \in 1..Len(nsEvents) :
        /\ nsEvents[i].event.Type # InternalEventDeleteAll
        /\ nsEvents[i].outcome # "panic") =>
        /\ {t.uid : t \in terminators} = LastAdded(nsEvents)
        /\ \A t, u \in terminators : t.uid = u.uid => t = u
        /\ \A t \in terminators :
            /\ t.chan \in 1..Len(channels)
            /\ channels[t.chan].closes = 0
        /\ \A c \in 1..Len(channels) :
            (\A t \in terminators : t.chan # c) => channels[c].closes = 1

\* C20 witness: uid1 was added, deleted and added again, uid2 was added: the
\* map holds the second channel of uid1 and the channel of uid2, both open,
\* and the first channel of uid1 was closed once.
C20_Witness ==
    /\ Len(nsEvents) = 4
    /\ nsEvents[1].event = Event(KubeEventAdded, Namespace("uid1"))
    /\ nsEvents[2].event = Event(KubeEventDeleted, Namespace("uid1"))
    /\ nsEvents[3].event = Event(KubeEventAdded, Namespace("uid1"))
    /\ nsEvents[4].event = Event(KubeEventAdded, Namespace("uid2"))
    /\ terminators = {[uid |-> "uid1", chan |-> 2], [uid |-> "uid2", chan |-> 3]}
    /\ channels = <<[closes |-> 1], [closes |-> 0], [closes |-> 0]>>

\* C21: a _DELETE_ALL event, whose Object is not a namespace, is taken by
\* manageResources without a panic, and after it terminators is empty, every
\* channel made so far is closed, and no uid of the map keeps its resource
\* version counter.
C21_TerminateAll ==
    \A i \in 1..Len(nsEvents) :
        nsEvents[i].event.Type = InternalEventDeleteAll =>
            /\ nsEvents[i].outcome # "panic"
            /\ i = Len(nsEvents) =>
                /\ terminators = {}
                /\ \A c \in 1..Len(channels) : channels[c].closes = 1

\* the event of the call that was just made
LastEvent(log) == log[Len(log)].event

\* C22: an ADDED event for a uid that is in terminators, and a DELETED event
\* for a uid that is not, change neither the map nor any channel nor the
\* resource version counters: no channel is made and none is closed.
C22_RedundantEventsNoOp ==
    [][(/\ Len(nsEvents') = Len(nsEvents) + 1
        /\ LastEvent(nsEvents').Object.Kind = "Namespace"
        /\ \/ /\ LastEvent(nsEvents').Type = KubeEventAdded
              /\ \E t \in terminators : t.uid = LastEvent(nsEvents').Object.UID
           \/ /\ LastEvent(nsEvents').Type = KubeEventDeleted
              /\ \A t \in terminators : t.uid # LastEvent(nsEvents').Object.UID) =>
          /\ terminators' = terminators
          /\ channels' = channels
          /\ lastEventPerNamespace' = lastEventPerNamespace]_vars

\* C22 witness: uid1 was added; a second ADDED event for uid1 and a DELETED
\* event for uid2, whose resource version counter exists, were both taken,
\* and the map still holds the one open channel of uid1.
C22_Witness ==
    /\ Len(nsEvents) = 3
    /\ nsEvents[1].event = Event(KubeEventAdded, Namespace("uid1"))
    /\ nsEvents[2].event = Event(KubeEventAdded, Namespace("uid1"))
    /\ nsEvents[3].event = Event(KubeEventDeleted, Namespace("uid2"))
    /\ nsEvents[2].outcome = "ignored"
    /\ nsEvents[3].outcome = "ignored"
    /\ terminators = {[uid |-> "uid1", chan |-> 1]}
    /\ channels = <<[closes |-> 0]>>
    /\ "uid2" \in lastEventPerNamespace

\* how many events of the batch have the type
CountType(events, type) == Len(ObjectsOf(events, type))

\* C23: whatever the order of the events of a batch, no delete is applied
\* before an add and an event that is neither ADDED nor DELETED applies
\* nothing; when every policy translates, the adds are the ADDED policies in
\* their order and the deletes the DELETED ones in theirs.
C23_AddsBeforeDeletes ==
    /\ \A j, k \in 1..Len(npApplied) :
        (npApplied[j].action = "networkPolicyActionDelete"
         /\ npApplied[k].action = "networkPolicyActionAdd") => k < j
    /\ Len(npApplied) <= CountType(npEvents, KubeEventAdded)
                         + CountType(npEvents, KubeEventDeleted)
    /\ (npErr # <<>> /\ npFailing = {}) =>
        /\ Len(npApplied) = CountType(npEvents, KubeEventAdded)
                            + CountType(npEvents, KubeEventDeleted)
        /\ \A k \in 1..Len(npApplied) :
            IF k <= CountType(npEvents, KubeEventAdded)
            THEN npApplied[k] =
                    [action |-> "networkPolicyActionAdd",
                     policy |-> TranslateNetworkPolicy(
                                    ObjectsOf(npEvents, KubeEventAdded)[k])]
            ELSE npApplied[k] =
                    [action |-> "networkPolicyActionDelete",
                     policy |-> TranslateNetworkPolicy(
                                    ObjectsOf(npEvents, KubeEventDeleted)
                                        [k - CountType(npEvents, KubeEventAdded)])]

\* C23 witness: the batch has the DELETED event of np1 before its ADDED event
\* and a MODIFIED event between them; np1 was added and then deleted.
C23_Witness ==
    /\ npEvents = <<Event(KubeEventDeleted, NetworkPolicy("np1")),
                    Event(KubeEventModified, NetworkPolicy("np1")),
                    Event(KubeEventAdded, NetworkPolicy("np1"))>>
    /\ npFailing = {}
    /\ npApplied =
        <<[action |-> "networkPolicyActionAdd",
           policy |-> TranslateNetworkPolicy(NetworkPolicy("np1"))],
          [action |-> "networkPolicyActionDelete",
           policy |-> TranslateNetworkPolicy(NetworkPolicy("np1"))]>>

\* ------------------------------------------------------------------------
\* The kubernetes listener: syncNetworkPolicies
\* ------------------------------------------------------------------------

\* how many kubernetes policies a call is given
MaxKubePolicies == 2

\* how many romana policies the policy service holds
MaxRomanaPolicies == 2

\* a v1beta1.NetworkPolicy: ObjectMeta.Namespace and ObjectMeta.Name
KubePolicy(namespace, name) == [Namespace |-> namespace, Name |-> name]

KubePolicyPool == {KubePolicy(ns, n) : ns \in {"ns1", "ns2"}, n \in {"a", "b"}}

\* fmt.Sprintf("kube.%s.", Namespace) followed by Name: a name is the
\* sequence of the pieces it is made of
FullPolicyName(kubePolicy) == <<"kube.", kubePolicy.Namespace, ".", kubePolicy.Name>>

\* the names romana policies have: the ones of kubernetes policies, of a
\* kubernetes policy that is gone, and one that no kubernetes policy made
RomanaNamePool ==
    {FullPolicyName(kp) : kp \in KubePolicyPool}
    \cup {<<"kube.", "old", ".", "a">>, <<"custom">>}

\* the policy service gives every policy an ID of its own; names may repeat
RomanaPolicies(names) == [pn \in 1..Len(names) |-> [ID |-> pn, Name |-> names[pn]]]

\* getAllPoliciesFunc: the policies, or the error of the request
FetchedPool ==
    {[err |-> "nil", policies |-> RomanaPolicies(names)] :
        names \in BSeq(RomanaNamePool, MaxRomanaPolicies)}
    \cup {[err |-> "GetError", policies |-> <<>>]}

\* the index of the first romana policy with the name, 0 if there is none
FirstNamed(policies, name) ==
    IF \E pn \in 1..Len(policies) : policies[pn].Name = name
    THEN CHOOSE pn \in 1..Len(policies) :
            /\ policies[pn].Name = name
            /\ \A qn \in 1..(pn - 1) : policies[qn].Name # name
    ELSE 0

\* the elements of the sequence at the indexes of the set, in order
Keep(s, I) ==
    LET kept[i \in 0..Len(s)] ==
            IF i = 0 THEN <<>>
            ELSE IF i \in I THEN Append(kept[i - 1], s[i]) ELSE kept[i - 1]
    IN kept[Len(s)]

\* a kubernetes policy is looked for by its name alone, in any namespace
SyncNetworkPolicies_AnyNamespace(kubePolicies, fetched) ==
    IF fetched.err # "nil"
    THEN [events |-> <<>>, policies |-> <<>>, err |-> fetched.err]
    ELSE LET policies == fetched.policies
             Named(kn) == {pn \in 1..Len(policies) :
                            /\ Len(policies[pn].Name) = 4
                            /\ policies[pn].Name[4] = kubePolicies[kn].Name}
             new == {kn \in 1..Len(kubePolicies) : Named(kn) = {}}
             accounted == UNION {Named(kn) : kn \in 1..Len(kubePolicies)}
             obsolete == {k \in 1..Len(policies) :
                            /\ HasPrefix(policies[k].Name, <<"kube.">>)
                            /\ k \notin accounted}
         IN [events |-> [i \in 1..Len(Keep(kubePolicies, new)) |->
                            Event(KubeEventAdded, Keep(kubePolicies, new)[i])],
             policies |-> Keep(policies, obsolete),
             err |-> "nil"]

(***************************************************************************)
(* kubeListener.syncNetworkPolicies.  Every kubernetes policy is looked    *)
(* for among the romana policies by its full name; the search stops at the *)
(* first romana policy with that name, which is then accounted for.  A     *)
(* kubernetes policy that is not found gives an ADDED event.  A romana     *)
(* policy whose name begins with "kube." and that is not accounted for is  *)
(* returned as obsolete.                                                   *)
(***************************************************************************)
SyncNetworkPolicies(kubePolicies, fetched) ==
    IF fetched.err # "nil"
    THEN [events |-> <<>>, policies |-> <<>>, err |-> fetched.err]
    ELSE LET policies == fetched.policies
             new == {kn \in 1..Len(kubePolicies) :
                        FirstNamed(policies, FullPolicyName(kubePolicies[kn])) = 0}
             accounted == {FirstNamed(policies, FullPolicyName(kubePolicies[kn])) :
                            kn \in 1..Len(kubePolicies)} \ {0}
             obsolete == {k \in 1..Len(policies) :
                            /\ HasPrefix(policies[k].Name, <<"kube.">>)
                            /\ k \notin accounted}
         IN [events |-> [i \in 1..Len(Keep(kubePolicies, new)) |->
                            Event(KubeEventAdded, Keep(kubePolicies, new)[i])],
             policies |-> Keep(policies, obsolete),
             err |-> "nil"]

InitSync ==
    /\ syKubePolicies = <<>>
    /\ syFetched = <<>>
    /\ syRet = <<>>
    /\ HasherUnused
    /\ FirewallUnused
    /\ LifecycleUnused
    /\ EnforcerUnused
    /\ PolicyEventsUnused
    /\ ConductorUnused
    /\ IpamUnused
    /\ NamespaceUnused

CallSyncNetworkPolicies ==
    /\ syRet = <<>>
    /\ \E kubePolicies \in BSeq(KubePolicyPool, MaxKubePolicies), fetched \in FetchedPool :
        /\ syKubePolicies' = kubePolicies
        /\ syFetched' = fetched
        /\ syRet' = SyncNetworkPolicies(kubePolicies, fetched)
    /\ UNCHANGED notSync

NextSync == CallSyncNetworkPolicies

SpecSync == InitSync /\ [][NextSync]_vars

\* whether some romana policy the service holds has the name
RomanaHasName(name) ==
    \E pn \in 1..Len(syFetched.policies) : syFetched.policies[pn].Name = name

\* C24: the events returned are ADDED events of exactly the kubernetes
\* policies of the input whose full name no romana policy has, in the order
\* of the input; when the romana policies cannot be fetched the error is
\* returned with no event and no policy.
C24_NewPoliciesAdded ==
    syRet # <<>> =>
        IF syFetched.err # "nil"
        THEN syRet = [events |-> <<>>, policies |-> <<>>, err |-> syFetched.err]
        ELSE /\ syRet.err = "nil"
             /\ syRet.events =
                    LET new == Keep(syKubePolicies,
                                    {kn \in 1..Len(syKubePolicies) :
                                        ~RomanaHasName(FullPolicyName(syKubePolicies[kn]))})
                    IN [i \in 1..Len(new) |-> Event(KubeEventAdded, new[i])]

\* C24 witness: of two kubernetes policies the second one has no romana
\* policy, and it alone is returned as ADDED.
C24_Witness ==
    /\ syKubePolicies = <<KubePolicy("ns1", "a"), KubePolicy("ns2", "a")>>
    /\ syFetched = [err |-> "nil",
                    policies |-> RomanaPolicies(<<FullPolicyName(KubePolicy("ns1", "a")),
                                                  <<"custom">>>>)]
    /\ syRet.events = <<Event(KubeEventAdded, KubePolicy("ns2", "a"))>>
    /\ syRet.policies = <<>>

\* C25: the romana policies returned as obsolete are exactly the ones whose
\* name begins with "kube." and is the full name of no kubernetes policy of
\* the input: a policy named as a kubernetes policy of the input is never
\* returned, nor one without the prefix.
C25_ObsoleteOnlyGone ==
    (syRet # <<>> /\ syFetched.err = "nil") =>
        syRet.policies =
            Keep(syFetched.policies,
                 {k \in 1..Len(syFetched.policies) :
                    /\ HasPrefix(syFetched.policies[k].Name, <<"kube.">>)
                    /\ \A kn \in 1..Len(syKubePolicies) :
                        syFetched.policies[k].Name # FullPolicyName(syKubePolicies[kn])})

\* ------------------------------------------------------------------------
\* The IPAM store: addEndpoint and deleteEndpoint
\* ------------------------------------------------------------------------

\* common.Datacenter, as far as addEndpoint reads it: two addresses fit in a
\* host/tenant/segment (effective network IDs 3 and 7)
Datacenter == [EndpointSpaceBits |-> 2, EndpointBits |-> 1]

\* the host/tenant/segment combinations endpoints are asked for
SegmentPool ==
    {[HostId |-> "h1", TenantID |-> "t1", SegmentID |-> seg] : seg \in {"s1", "s2"}}

\* sql.NullString request tokens
NullToken == [Valid |-> FALSE, String |-> ""]

Token(s) == [Valid |-> TRUE, String |-> s]

TokenPool == {NullToken, Token("tok1")}

\* the endpoint a caller hands to addEndpoint
EndpointRequest(seg, token) ==
    [HostId |-> seg.HostId, TenantID |-> seg.TenantID, SegmentID |-> seg.SegmentID,
     RequestToken |-> token, NetworkID |-> 0, EffectiveNetworkID |-> 0,
     Ip |-> <<>>, InUse |-> FALSE]

EndpointRequestPool == {EndpointRequest(seg, token) : seg \in SegmentPool, token \in TokenPool}

\* the stage of a call at which the database reports an error; 0: nowhere
DbErrorPool == 0..7

Pow2(n) == LET p[i \in 0..n] == IF i = 0 THEN 1 ELSE 2 * p[i - 1] IN p[n]

\* the bits of the host/tenant/segment are lost
BitOr_SecondOnly(a, b) == b

\* a | b on unsigned integers
RECURSIVE BitOr(_, _)
BitOr(a, b) ==
    IF a = 0 THEN b
    ELSE IF b = 0 THEN a
    ELSE 2 * BitOr(a \div 2, b \div 2) + (IF a % 2 = 1 \/ b % 2 = 1 THEN 1 ELSE 0)

\* common.IntToIPv4(ipInt).String(): the four bytes of the address
IntToIPv4(ipInt) ==
    <<(ipInt \div 16777216) % 256, (ipInt \div 65536) % 256,
      (ipInt \div 256) % 256, ipInt % 256>>

\* the address bits above the endpoint bits, as the caller computes them for a
\* host/tenant/segment: 10.0.0.0 for s1, 10.0.0.8 for s2
UpToEndpointIpInt(seg) == IF seg.SegmentID = "s1" THEN 167772160 ELSE 167772168

GetEffectiveNetworkID(EndpointNetworkID, stride) == 3 + Pow2(stride) * EndpointNetworkID

SameSegment(row, endpoint) ==
    /\ row.HostId = endpoint.HostId
    /\ row.TenantID = endpoint.TenantID
    /\ row.SegmentID = endpoint.SegmentID

\* the rows of the host/tenant/segment of the endpoint
SegmentRows(rows, endpoint) == {i \in 1..Len(rows) : SameSegment(rows[i], endpoint)}

\* the rows with the address
IpRows(rows, ip) == {i \in 1..Len(rows) : rows[i].Ip = ip}

\* the rows with the request token
TokenRows(rows, token) == {i \in 1..Len(rows) : rows[i].RequestToken = token}

SetMax(S) == CHOOSE x \in S : \A y \in S : y <= x

SetMin(S) == CHOOSE x \in S : \A y \in S : x <= y

\* UPDATE endpoints SET in_use = ? WHERE ip = ?
UpdateInUse(rows, ip, inUse) ==
    [i \in 1..Len(rows) |->
        IF rows[i].Ip = ip THEN [rows[i] EXCEPT !.InUse = inUse] ELSE rows[i]]

\* the unique indexes of the endpoints table: a request token that is not
\* NULL belongs to one row, and so does a network ID of a host/tenant/segment
UniqueIndexes(rows) ==
    \A i, j \in 1..Len(rows) :
        i # j =>
            /\ rows[i].RequestToken.Valid => rows[i].RequestToken # rows[j].RequestToken
            /\ SameSegment(rows[i], rows[j]) => rows[i].NetworkID # rows[j].NetworkID

DbError(stage) == <<"DbError", stage>>

Nil == <<"nil">>

Called(rows, err, endpoint) == [rows |-> rows, err |-> err, endpoint |-> endpoint]

\* SELECT IFNULL(MAX(network_id),-1)+1 for the host/tenant/segment
NextNetworkID(rows, endpoint) ==
    IF SegmentRows(rows, endpoint) = {} THEN 0
    ELSE SetMax({rows[i].NetworkID : i \in SegmentRows(rows, endpoint)}) + 1

\* the released address with the highest network ID is taken
FirstReleased_Highest(rows, endpoint) ==
    LET released == {i \in SegmentRows(rows, endpoint) : ~rows[i].InUse}
    IN IF released = {} THEN <<>>
       ELSE LET high == SetMax({rows[i].NetworkID : i \in released})
            IN <<rows[CHOOSE i \in released : rows[i].NetworkID = high].Ip>>

\* SELECT MIN(network_id), ip ... AND in_use = 0 GROUP BY ip ORDER BY
\* MIN(network_id) ASC: the first row, <<>> if there is none
FirstReleased(rows, endpoint) ==
    LET released == {i \in SegmentRows(rows, endpoint) : ~rows[i].InUse}
    IN IF released = {} THEN <<>>
       ELSE LET low == SetMin({rows[i].NetworkID : i \in released})
            IN <<rows[CHOOSE i \in released : rows[i].NetworkID = low].Ip>>

\* tx.Create(endpoint): the row is stored unless an index forbids it
Create(rows, endpoint, dbErr) ==
    IF dbErr = 4 \/ ~UniqueIndexes(Append(rows, endpoint))
    THEN Called(rows, DbError(4), endpoint)
    ELSE Called(Append(rows, endpoint), Nil, endpoint)

\* an UPDATE that reports an error is not rolled back
Reuse_NoRollback(rows, endpoint, dbErr) ==
    IF dbErr \in {5, 6} THEN Called(rows, DbError(dbErr), endpoint)
    ELSE IF FirstReleased(rows, endpoint) = <<>>
    THEN Called(rows, <<"Out of IP addresses.">>, endpoint)
    ELSE LET ip == FirstReleased(rows, endpoint)[1]
             reused == [endpoint EXCEPT !.Ip = ip]
         IN Called(UpdateInUse(rows, ip, TRUE),
                   IF dbErr = 7 THEN DbError(7) ELSE Nil, reused)

\* the rest of addEndpoint when the new effective network ID exceeds the
\* maximum: a released address of the host/tenant/segment is taken again
Reuse(rows, endpoint, dbErr) ==
    IF dbErr \in {5, 6} THEN Called(rows, DbError(dbErr), endpoint)
    ELSE IF FirstReleased(rows, endpoint) = <<>>
    THEN Called(rows, <<"Out of IP addresses.">>, endpoint)
    ELSE LET ip == FirstReleased(rows, endpoint)[1]
             reused == [endpoint EXCEPT !.Ip = ip]
         IN IF dbErr = 7 THEN Called(rows, DbError(7), reused)
            ELSE Called(UpdateInUse(rows, ip, TRUE), Nil, reused)

\* the rest of addEndpoint once MAX(network_id)+1 is read
Allocate(rows, endpoint, netID, upToEndpointIpInt, dc, dbErr) ==
    LET maxEffNetID == Pow2(dc.EndpointSpaceBits + dc.EndpointBits) - 1
        effective == GetEffectiveNetworkID(netID, dc.EndpointSpaceBits)
        numbered == [endpoint EXCEPT !.InUse = TRUE, !.NetworkID = netID,
                                     !.EffectiveNetworkID = effective]
    IN IF effective <= maxEffNetID
       THEN Create(rows,
                   [numbered EXCEPT
                        !.Ip = IntToIPv4(BitOr(upToEndpointIpInt, effective))],
                   dbErr)
       ELSE Reuse(rows, numbered, dbErr)

\* the start of addEndpoint: <<>> if the call goes on to allocate, else what
\* it returns: the row that has the request token, or an error
FindByToken(rows, endpoint, dbErr) ==
    IF ~(endpoint.RequestToken.Valid /\ endpoint.RequestToken.String # "")
    THEN <<>>
    ELSE IF dbErr = 1 THEN <<Called(rows, DbError(1), endpoint)>>
    ELSE IF TokenRows(rows, endpoint.RequestToken) = {} THEN <<>>
    ELSE <<Called(rows, Nil,
                  rows[SetMin(TokenRows(rows, endpoint.RequestToken))])>>

\* a row that has the request token is not looked for
AddEndpoint_TokenIgnored(rows, endpoint, upToEndpointIpInt, dc, dbErr) ==
    IF dbErr \in {2, 3}
    THEN Called(rows, DbError(dbErr), [endpoint EXCEPT !.InUse = TRUE])
    ELSE Allocate(rows, endpoint, NextNetworkID(rows, endpoint),
                  upToEndpointIpInt, dc, dbErr)

(***************************************************************************)
(* ipamStore.addEndpoint, in one transaction.  An endpoint whose request   *)
(* token a row has is answered with that row.  Otherwise the next network  *)
(* ID of the host/tenant/segment is read; if its effective network ID fits *)
(* the address is made of it and the row is created, and if not, the       *)
(* released address with the lowest network ID is put in use again, or the *)
(* call ends with "Out of IP addresses.".  Every error rolls back.         *)
(***************************************************************************)
AddEndpoint(rows, endpoint, upToEndpointIpInt, dc, dbErr) ==
    IF FindByToken(rows, endpoint, dbErr) # <<>>
    THEN FindByToken(rows, endpoint, dbErr)[1]
    ELSE IF dbErr \in {2, 3}
    THEN Called(rows, DbError(dbErr), [endpoint EXCEPT !.InUse = TRUE])
    ELSE Allocate(rows, endpoint, NextNetworkID(rows, endpoint),
                  upToEndpointIpInt, dc, dbErr)

\* the row is returned as it is after the update
DeleteEndpoint_ReturnsUpdated(rows, ip, dbErr) ==
    IF IpRows(rows, ip) = {}
    THEN Called(rows, <<"404", "endpoint", ip>>, <<>>)
    ELSE IF Cardinality(IpRows(rows, ip)) > 1
    THEN Called(rows, <<"500">>, <<>>)
    ELSE IF dbErr # 0 THEN Called(rows, DbError(dbErr), <<>>)
    ELSE Called(UpdateInUse(rows, ip, FALSE), Nil,
                UpdateInUse(rows, ip, FALSE)[SetMin(IpRows(rows, ip))])

(***************************************************************************)
(* ipamStore.deleteEndpoint: the row with the address is marked as not in  *)
(* use and returned as it was read; no row gives a 404 error, more than    *)
(* one a 500 error.                                                        *)
(***************************************************************************)
DeleteEndpoint(rows, ip, dbErr) ==
    IF IpRows(rows, ip) = {}
    THEN Called(rows, <<"404", "endpoint", ip>>, <<>>)
    ELSE IF Cardinality(IpRows(rows, ip)) > 1
    THEN Called(rows, <<"500">>, <<>>)
    ELSE IF dbErr # 0 THEN Called(rows, DbError(dbErr), <<>>)
    ELSE Called(UpdateInUse(rows, ip, FALSE), Nil, rows[SetMin(IpRows(rows, ip))])

\* the addresses deleteEndpoint is called with: the ones of the two segments
\* and one that was never given out
IpPool ==
    {IntToIPv4(BitOr(UpToEndpointIpInt(seg),
                     GetEffectiveNetworkID(n, Datacenter.EndpointSpaceBits))) :
        seg \in SegmentPool, n \in 0..1}
    \cup {<<10, 9, 9, 9>>}

\* what a call leaves in ipRet
Returns(name, argument, out) ==
    [op |-> name, arg |-> argument, err |-> out.err, endpoint |-> out.endpoint]

\* the store is empty when the service is set up
InitIpam ==
    /\ ipEndpoints = <<>>
    /\ ipRet = <<>>
    /\ ipTokenIps = {}
    /\ ipTx = <<>>
    /\ HasherUnused
    /\ FirewallUnused
    /\ LifecycleUnused
    /\ EnforcerUnused
    /\ PolicyEventsUnused
    /\ ConductorUnused
    /\ SyncUnused
    /\ NamespaceUnused

\* the request tokens with the addresses they were answered with
Answered(pairs, endpoint, out) ==
    IF out.err = Nil /\ endpoint.RequestToken.Valid
    THEN pairs \cup {<<endpoint.RequestToken.String, out.endpoint.Ip>>}
    ELSE pairs

CallAddEndpoint ==
    /\ \E endpoint \in EndpointRequestPool, dbErr \in DbErrorPool :
        LET out == AddEndpoint(ipEndpoints, endpoint, UpToEndpointIpInt(endpoint),
                               Datacenter, dbErr)
        IN /\ ipEndpoints' = out.rows
           /\ ipRet' = Returns("addEndpoint", endpoint, out)
           /\ ipTokenIps' = Answered(ipTokenIps, endpoint, out)
    /\ UNCHANGED ipTx
    /\ UNCHANGED notIpam

CallDeleteEndpoint ==
    /\ \E ip \in IpPool, dbErr \in {0, 1} :
        LET out == DeleteEndpoint(ipEndpoints, ip, dbErr)
        IN /\ ipEndpoints' = out.rows
           /\ ipRet' = Returns("deleteEndpoint", ip, out)
    /\ UNCHANGED <<ipTokenIps, ipTx>>
    /\ UNCHANGED notIpam

NextIpam == CallAddEndpoint \/ CallDeleteEndpoint

SpecIpam == InitIpam /\ [][NextIpam]_vars

\* whether the call that was just made is addEndpoint for an endpoint whose
\* request token no row has, with every fresh network ID of its
\* host/tenant/segment given out and a released row there
ExhaustedWithReleased(rows, call) ==
    /\ call.op = "addEndpoint"
    /\ \/ ~call.arg.RequestToken.Valid
       \/ \A i \in 1..Len(rows) : rows[i].RequestToken # call.arg.RequestToken
    /\ \A n \in 0..Len(rows) :
        (\A i \in 1..Len(rows) : SameSegment(rows[i], call.arg) => rows[i].NetworkID < n)
            => 3 + Pow2(Datacenter.EndpointSpaceBits) * n
                    > Pow2(Datacenter.EndpointSpaceBits + Datacenter.EndpointBits) - 1
    /\ \E i \in 1..Len(rows) : SameSegment(rows[i], call.arg) /\ ~rows[i].InUse

\* C26: a successful deleteEndpoint(ip) keeps the row of ip, with in_use
\* false; and when every fresh network ID of a host/tenant/segment is given
\* out, addEndpoint for an endpoint without a stored request token returns the
\* released address with the lowest network ID and puts its row in use again.
C26_ReleasedIpReused ==
    [][/\ (ipRet'.op = "deleteEndpoint" /\ ipRet'.err = Nil) =>
            /\ Len(ipEndpoints') = Len(ipEndpoints)
            /\ \E i \in 1..Len(ipEndpoints') :
                /\ ipEndpoints'[i].Ip = ipRet'.arg
                /\ ~ipEndpoints'[i].InUse
                /\ ipEndpoints'[i] = [ipEndpoints[i] EXCEPT !.InUse = FALSE]
       /\ (ExhaustedWithReleased(ipEndpoints, ipRet')
           /\ ipRet'.err[1] # "DbError") =>
            /\ ipRet'.err = Nil
            /\ \E i \in 1..Len(ipEndpoints) :
                /\ SameSegment(ipEndpoints[i], ipRet'.arg)
                /\ ~ipEndpoints[i].InUse
                /\ \A j \in 1..Len(ipEndpoints) :
                    (SameSegment(ipEndpoints[j], ipRet'.arg) /\ ~ipEndpoints[j].InUse)
                        => ipEndpoints[i].NetworkID <= ipEndpoints[j].NetworkID
                /\ ipRet'.endpoint.Ip = ipEndpoints[i].Ip
                /\ ipEndpoints'[i] = [ipEndpoints[i] EXCEPT !.InUse = TRUE]]_vars

\* C26 witness: both addresses of segment s1 were given out and released; the
\* next addEndpoint, which read network ID 2, returned 10.0.0.3, the address
\* of network ID 0, whose row is in use again while 10.0.0.7 stays released.
C26_Witness ==
    /\ ipRet # <<>>
    /\ ipRet.op = "addEndpoint"
    /\ ipRet.err = Nil
    /\ ipRet.arg.SegmentID = "s1"
    /\ ipRet.endpoint.NetworkID = 2
    /\ ipRet.endpoint.Ip = <<10, 0, 0, 3>>
    /\ Len(ipEndpoints) = 2
    /\ ipEndpoints[1].Ip = <<10, 0, 0, 3>> /\ ipEndpoints[1].InUse
    /\ ipEndpoints[2].Ip = <<10, 0, 0, 7>> /\ ~ipEndpoints[2].InUse

\* C27: all successful addEndpoint calls with the same request token return
\* the same Ip, and a call whose token a row already has changes no row.
C27_TokenIdempotent ==
    [][/\ \A p, q \in ipTokenIps' : p[1] = q[1] => p[2] = q[2]
       /\ (/\ ipRet'.op = "addEndpoint"
           /\ ipRet'.arg.RequestToken.Valid
           /\ \E i \in 1..Len(ipEndpoints) :
                ipEndpoints[i].RequestToken = ipRet'.arg.RequestToken) =>
            ipEndpoints' = ipEndpoints]_vars

\* C28: no two rows that are in use have the same Ip, and no two rows of one
\* host/tenant/segment have the same network ID.
C28_UniqueIpAndNetworkID ==
    \A i, j \in 1..Len(ipEndpoints) :
        i # j =>
            /\ (ipEndpoints[i].InUse /\ ipEndpoints[j].InUse) =>
                    ipEndpoints[i].Ip # ipEndpoints[j].Ip
            /\ SameSegment(ipEndpoints[i], ipEndpoints[j]) =>
                    ipEndpoints[i].NetworkID # ipEndpoints[j].NetworkID

\* C28 witness: both segments have both their addresses in use, after an
\* address of s1 was released and taken again.
C28_Witness ==
    /\ Len(ipEndpoints) = 4
    /\ \A i \in 1..4 : ipEndpoints[i].InUse
    /\ {ipEndpoints[i].Ip : i \in 1..4} =
            {<<10, 0, 0, 3>>, <<10, 0, 0, 7>>, <<10, 0, 0, 11>>, <<10, 0, 0, 15>>}
    /\ ipRet.op = "addEndpoint"
    /\ ipRet.err = Nil
    /\ ipRet.endpoint.NetworkID = 2

\* C30: whenever addEndpoint returns nil, a row has the Ip of the returned
\* endpoint and is in use.
C30_ReturnedIpInUse ==
    (ipRet # <<>> /\ ipRet.op = "addEndpoint" /\ ipRet.err = Nil) =>
        \E i \in 1..Len(ipEndpoints) :
            /\ ipEndpoints[i].Ip = ipRet.endpoint.Ip
            /\ ipEndpoints[i].InUse

\* ------------------------------------------------------------------------
\* The IPAM store: addEndpoint calls that overlap
\* ------------------------------------------------------------------------

\* the two transactions that may overlap
Transactions == {1, 2}

Idle == [pc |-> "idle"]

\* every statement of a transaction reads what is committed; tx.Create and
\* the UPDATE are the last statement before tx.Commit and take effect with it
InitIpamConcurrent ==
    /\ ipEndpoints = <<>>
    /\ ipRet = <<>>
    /\ ipTokenIps = {}
    /\ ipTx = [t \in Transactions |-> Idle]
    /\ HasherUnused
    /\ FirewallUnused
    /\ LifecycleUnused
    /\ EnforcerUnused
    /\ PolicyEventsUnused
    /\ ConductorUnused
    /\ SyncUnused
    /\ NamespaceUnused

NoneStarted == \A t \in Transactions : ipTx[t] = Idle

\* a call that overlaps no other and meets no database error
SerialAddEndpoint ==
    /\ NoneStarted
    /\ \E endpoint \in EndpointRequestPool :
        ipEndpoints' = AddEndpoint(ipEndpoints, endpoint, UpToEndpointIpInt(endpoint),
                                   Datacenter, 0).rows
    /\ UNCHANGED <<ipRet, ipTokenIps, ipTx>>
    /\ UNCHANGED notIpam

SerialDeleteEndpoint ==
    /\ NoneStarted
    /\ \E ip \in IpPool : ipEndpoints' = DeleteEndpoint(ipEndpoints, ip, 0).rows
    /\ UNCHANGED <<ipRet, ipTokenIps, ipTx>>
    /\ UNCHANGED notIpam

Finished(out, how) ==
    [pc |-> "returned", err |-> out.err, endpoint |-> out.endpoint, how |-> how]

\* addEndpoint begins: the row with the request token is looked for
TxFindByToken(t) ==
    /\ ipTx[t] = Idle
    /\ \E endpoint \in EndpointRequestPool :
        ipTx' = [ipTx EXCEPT ![t] =
                    IF FindByToken(ipEndpoints, endpoint, 0) # <<>>
                    THEN Finished(FindByToken(ipEndpoints, endpoint, 0)[1], "found")
                    ELSE [pc |-> "select max", endpoint |-> endpoint]]
    /\ UNCHANGED <<ipEndpoints, ipRet, ipTokenIps>>
    /\ UNCHANGED notIpam

\* SELECT IFNULL(MAX(network_id),-1)+1
TxSelectMax(t) ==
    /\ ipTx[t].pc = "select max"
    /\ ipTx' = [ipTx EXCEPT ![t] =
                    [pc |-> "allocate", endpoint |-> ipTx[t].endpoint,
                     netID |-> NextNetworkID(ipEndpoints, ipTx[t].endpoint)]]
    /\ UNCHANGED <<ipEndpoints, ipRet, ipTokenIps>>
    /\ UNCHANGED notIpam

Fits(netID, dc) ==
    GetEffectiveNetworkID(netID, dc.EndpointSpaceBits)
        <= Pow2(dc.EndpointSpaceBits + dc.EndpointBits) - 1

\* the effective network ID fits: the row is created and committed, unless
\* an index forbids it
TxCreate(t) ==
    /\ ipTx[t].pc = "allocate"
    /\ Fits(ipTx[t].netID, Datacenter)
    /\ LET out == Allocate(ipEndpoints, ipTx[t].endpoint, ipTx[t].netID,
                           UpToEndpointIpInt(ipTx[t].endpoint), Datacenter, 0)
       IN /\ ipEndpoints' = out.rows
          /\ ipTx' = [ipTx EXCEPT ![t] = Finished(out, "created")]
    /\ UNCHANGED <<ipRet, ipTokenIps>>
    /\ UNCHANGED notIpam

\* it does not fit: SELECT MIN(network_id), ip of the released rows
TxSelectReleased(t) ==
    /\ ipTx[t].pc = "allocate"
    /\ ~Fits(ipTx[t].netID, Datacenter)
    /\ ipTx' = [ipTx EXCEPT ![t] =
                    IF FirstReleased(ipEndpoints, ipTx[t].endpoint) = <<>>
                    THEN Finished(Reuse(ipEndpoints, ipTx[t].endpoint, 0), "none")
                    ELSE [pc |-> "update", endpoint |-> ipTx[t].endpoint,
                          ip |-> FirstReleased(ipEndpoints, ipTx[t].endpoint)[1]]]
    /\ UNCHANGED <<ipEndpoints, ipRet, ipTokenIps>>
    /\ UNCHANGED notIpam

\* UPDATE ... SET in_use = true WHERE ip = ?, and tx.Commit
TxUpdate(t) ==
    /\ ipTx[t].pc = "update"
    /\ ipEndpoints' = UpdateInUse(ipEndpoints, ipTx[t].ip, TRUE)
    /\ ipTx' = [ipTx EXCEPT ![t] =
                    Finished([err |-> Nil,
                              endpoint |-> [ipTx[t].endpoint EXCEPT
                                                !.Ip = ipTx[t].ip, !.InUse = TRUE]],
                             "reused")]
    /\ UNCHANGED <<ipRet, ipTokenIps>>
    /\ UNCHANGED notIpam

NextIpamConcurrent ==
    \/ SerialAddEndpoint
    \/ SerialDeleteEndpoint
    \/ \E t \in Transactions :
        \/ TxFindByToken(t)
        \/ TxSelectMax(t)
        \/ TxCreate(t)
        \/ TxSelectReleased(t)
        \/ TxUpdate(t)

SpecIpamConcurrent == InitIpamConcurrent /\ [][NextIpamConcurrent]_vars

\* whether the transaction has committed an allocation of an address
Allocated(tx) ==
    /\ tx.pc = "returned"
    /\ tx.err = Nil
    /\ tx.how \in {"created", "reused"}

\* C29: of two addEndpoint calls whose steps interleave, at most one commits
\* an allocation of a given Ip: two calls that both allocated and returned
\* nil did not return the same Ip.
C29_OverlappingDistinctIps ==
    \A t, u \in Transactions :
        (t # u /\ Allocated(ipTx[t]) /\ Allocated(ipTx[u])) =>
            ipTx[t].endpoint.Ip # ipTx[u].endpoint.Ip

\* whether the call that was just made is addEndpoint for an endpoint whose
\* request token no row has, with every fresh network ID of its
\* host/tenant/segment given out and no released row there
ExhaustedNoneReleased(rows, call) ==
    /\ call.op = "addEndpoint"
    /\ \/ ~call.arg.RequestToken.Valid
       \/ \A i \in 1..Len(rows) : rows[i].RequestToken # call.arg.RequestToken
    /\ \A n \in 0..Len(rows) :
        (\A i \in 1..Len(rows) : SameSegment(rows[i], call.arg) => rows[i].NetworkID < n)
            => 3 + Pow2(Datacenter.EndpointSpaceBits) * n
                    > Pow2(Datacenter.EndpointSpaceBits + Datacenter.EndpointBits) - 1
    /\ \A i \in 1..Len(rows) : SameSegment(rows[i], call.arg) => rows[i].InUse

\* C31: when the effective network ID of MAX(network_id)+1 exceeds the
\* maximum and no row of the host/tenant/segment is released, addEndpoint
\* (having found no row with the request token, and the database reporting no
\* error) returns "Out of IP addresses."; and whatever error addEndpoint
\* returns, the rows are as they were before the call.
C31_ExhaustionAndRollback ==
    [][/\ (ExhaustedNoneReleased(ipEndpoints, ipRet') /\ ipRet'.err[1] # "DbError") =>
            ipRet'.err = <<"Out of IP addresses.">>
       /\ (ipRet'.op = "addEndpoint" /\ ipRet'.err # Nil) =>
            ipEndpoints' = ipEndpoints]_vars

\* C31 witness: both addresses of segment s1 are in use and addEndpoint for
\* s1 has returned "Out of IP addresses.", having read network ID 2.
C31_Witness ==
    /\ ipRet # <<>>
    /\ ipRet.op = "addEndpoint"
    /\ ipRet.err = <<"Out of IP addresses.">>
    /\ ipRet.arg.SegmentID = "s1"
    /\ ipRet.endpoint.NetworkID = 2
    /\ Len(ipEndpoints) = 2
    /\ \A i \in 1..2 : ipEndpoints[i].SegmentID = "s1" /\ ipEndpoints[i].InUse

\* C32: deleteEndpoint(ip) for an ip no row has returns a 404 error and
\* changes no row; for an ip one row has it returns (unless the database
\* reports an error) that row as it was before the call, and afterwards the
\* rows differ from before in the in_use flag of that row only, which is false.
C32_DeleteEndpointEffect ==
    [][(ipRet'.op = "deleteEndpoint") =>
        LET found == {i \in 1..Len(ipEndpoints) : ipEndpoints[i].Ip = ipRet'.arg}
        IN /\ found = {} =>
                /\ ipRet'.err = <<"404", "endpoint", ipRet'.arg>>
                /\ ipEndpoints' = ipEndpoints
           /\ (Cardinality(found) = 1 /\ ipRet'.err[1] # "DbError") =>
                \E i \in found :
                    /\ ipRet'.err = Nil
                    /\ ipRet'.endpoint = ipEndpoints[i]
                    /\ ipEndpoints' = [ipEndpoints EXCEPT ![i].InUse = FALSE]]_vars

\* C32 witness: deleteEndpoint(10.0.0.3) has returned the row of 10.0.0.3 as
\* it was, in use, and the row is now released while the other row is in use.
C32_Witness ==
    /\ ipRet # <<>>
    /\ ipRet.op = "deleteEndpoint"
    /\ ipRet.arg = <<10, 0, 0, 3>>
    /\ ipRet.err = Nil
    /\ ipRet.endpoint.Ip = <<10, 0, 0, 3>>
    /\ ipRet.endpoint.InUse
    /\ Len(ipEndpoints) = 2
    /\ ~ipEndpoints[1].InUse
    /\ ipEndpoints[2].InUse

\* ------------------------------------------------------------------------
\* The kubernetes listener: handleNamespaceEvent
\* ------------------------------------------------------------------------

\* a v1.Namespace as handleNamespaceEvent reads it: TypeMeta.Kind, the phase
\* of Status, and the net.beta.kubernetes.io/networkpolicy annotation (<<>>:
\* none; else whether it decodes, and the ingress isolation it decodes to)
NamespaceObject(uid, kind, phase, annotation) ==
    [Kind |-> "Namespace", UID |-> uid, Name |-> uid,
     TypeMeta |-> [Kind |-> kind], Status |-> [Phase |-> phase],
     Annotations |-> annotation]

NamespaceActive == "Active"

NamespaceTerminating == "Terminating"

AnnotationPool ==
    {<<>>,
     <<[decodes |-> FALSE, isolation |-> ""]>>,
     <<[decodes |-> TRUE, isolation |-> "DefaultDeny"]>>,
     <<[decodes |-> TRUE, isolation |-> ""]>>}

\* the events the conductor hands to handleNamespaceEvent
HandledEventPool ==
    {Event(type, NamespaceObject(uid, kind, phase, annotation)) :
        type \in {KubeEventAdded, KubeEventDeleted, KubeEventModified},
        uid \in {"uid1"},
        kind \in {"Namespace", ""},
        phase \in {NamespaceActive, NamespaceTerminating},
        annotation \in AnnotationPool}
    \cup {Event(KubeEventAdded, NamespacePointer("uid1")),
          Event(InternalEventDeleteAll, NoObject)}

\* the services the handler asks, each of which may answer with an error
ServicePool == {"GetServiceUrl", "Post", "resolveTenantByName"}

Did(fn, name) == [fn |-> fn, arg |-> name]

\* CreateDefaultPolicy: the tenant is resolved, the action is chosen by the
\* annotation, and the default policy is applied
CreateDefaultPolicy(o, failing) ==
    <<Did("CreateDefaultPolicy", o.Name)>>
    \o (IF "resolveTenantByName" \in failing THEN <<>>
        ELSE IF o.Annotations = <<>>
        THEN <<Did("applyNetworkPolicy", "networkPolicyActionAdd")>>
        ELSE IF ~o.Annotations[1].decodes THEN <<>>
        ELSE IF o.Annotations[1].isolation = "DefaultDeny"
        THEN <<Did("applyNetworkPolicy", "networkPolicyActionDelete")>>
        ELSE <<Did("applyNetworkPolicy", "networkPolicyActionAdd")>>)

\* handleAnnotations: nothing more is done for an object whose Kind is not
\* "Namespace"
HandleAnnotations(o, failing) ==
    <<Did("handleAnnotations", o.Name)>>
    \o (IF o.TypeMeta.Kind # "Namespace" THEN <<>> ELSE CreateDefaultPolicy(o, failing))

\* the tenant of an ADDED namespace is posted to the tenant service
PostTenant(namespace, failing) ==
    IF "GetServiceUrl" \in failing THEN <<>>
    ELSE <<Did("Post /tenants", namespace.Name)>>

\* the annotations are handled whatever the phase and the event
HandleNamespaceEvent_AlwaysAnnotates(e, failing) ==
    IF e.Object.Kind # "Namespace"
    THEN [ret |-> "panic", calls |-> <<>>]
    ELSE [ret |-> "returned",
          calls |-> (IF e.Type = KubeEventAdded
                     THEN PostTenant(e.Object, failing) ELSE <<>>)
                    \o HandleAnnotations(e.Object, failing)]

(***************************************************************************)
(* handleNamespaceEvent.  The object of the event must be a v1.Namespace,  *)
(* or the function panics.  For an ADDED event the tenant is posted.  The  *)
(* annotations are handled, except for a MODIFIED event of a namespace     *)
(* that is terminating.                                                    *)
(***************************************************************************)
HandleNamespaceEvent(e, failing) ==
    IF e.Object.Kind # "Namespace"
    THEN [ret |-> "panic", calls |-> <<>>]
    ELSE [ret |-> "returned",
          calls |-> (IF e.Type = KubeEventAdded
                     THEN PostTenant(e.Object, failing) ELSE <<>>)
                    \o (IF e.Object.Status.Phase = NamespaceTerminating
                           /\ e.Type = KubeEventModified
                        THEN <<>>
                        ELSE HandleAnnotations(e.Object, failing))]

InitNamespace ==
    /\ heEvent = <<>>
    /\ heServices = {}
    /\ heCalls = <<>>
    /\ heRet = "init"
    /\ HasherUnused
    /\ FirewallUnused
    /\ LifecycleUnused
    /\ EnforcerUnused
    /\ PolicyEventsUnused
    /\ ConductorUnused
    /\ SyncUnused
    /\ IpamUnused

CallHandleNamespaceEvent ==
    /\ heRet = "init"
    /\ \E e \in HandledEventPool, failing \in SUBSET ServicePool :
        /\ heEvent' = e
        /\ heServices' = failing
        /\ heCalls' = HandleNamespaceEvent(e, failing).calls
        /\ heRet' = HandleNamespaceEvent(e, failing).ret
    /\ UNCHANGED notNamespace

NextNamespace == CallHandleNamespaceEvent

SpecNamespace == InitNamespace /\ [][NextNamespace]_vars

\* whether the handler made the call
Made(fn) == \E i \in 1..Len(heCalls) : heCalls[i].fn = fn

\* a MODIFIED event of a namespace whose phase is Terminating
RepeatedWhileTerminating ==
    /\ heEvent.Type = KubeEventModified
    /\ heEvent.Object.Status.Phase = NamespaceTerminating

\* C33, as stated: handleAnnotations and CreateDefaultPolicy both run for
\* every namespace event except a MODIFIED event of a namespace whose phase is
\* Terminating, and a tenant is posted only for ADDED events.
C33_Original ==
    heRet = "returned" =>
        /\ Made("handleAnnotations") <=> ~RepeatedWhileTerminating
        /\ Made("CreateDefaultPolicy") <=> ~RepeatedWhileTerminating
        /\ Made("Post /tenants") => heEvent.Type = KubeEventAdded

\* C33, amended: handleAnnotations runs for every namespace event except a
\* MODIFIED event of a namespace whose phase is Terminating; CreateDefaultPolicy
\* runs for those events whose object has the Kind "Namespace", and for no
\* other; a tenant is posted only for ADDED events.
C33_TerminationIgnored ==
    heRet = "returned" =>
        /\ Made("handleAnnotations") <=> ~RepeatedWhileTerminating
        /\ Made("CreateDefaultPolicy") <=>
                (~RepeatedWhileTerminating /\ heEvent.Object.TypeMeta.Kind = "Namespace")
        /\ Made("Post /tenants") => heEvent.Type = KubeEventAdded

\* C33 witness: a MODIFIED event of a terminating namespace of Kind
\* "Namespace" was handled, and nothing was called for it.
C33_Witness ==
    /\ heRet = "returned"
    /\ heEvent.Type = KubeEventModified
    /\ heEvent.Object.Status.Phase = NamespaceTerminating
    /\ heEvent.Object.TypeMeta.Kind = "Namespace"
    /\ heCalls = <<>>

=============================================================================
